---- MODULE Spec2Model ----
(***************************************************************************)
(* Model of the llm_monitoring package: the per-provider CircuitBreaker,   *)
(* the ResponseCache, the MetricsCollector and the LLMMonitor.generate     *)
(* pipeline (token limiter -> cost limiter -> provider selection with      *)
(* failover -> cache -> provider call).                                    *)
(*                                                                         *)
(* Time.  time.time() and datetime.now() are read from one clock, `now`,   *)
(* counted in whole seconds; the calendar (year, month) that datetime.now()*)
(* reports is kept separately in `today` because a month boundary can fall *)
(* between any two instants.  A handler reads the clock once: the few      *)
(* microseconds between two reads inside one call are not modelled.        *)
(*                                                                         *)
(* Money.  Python floats are modelled by exact arithmetic on integer       *)
(* units of 0.5e-6 USD (the largest unit in which every per-token price of *)
(* the program is a whole number).  An amount is a record [usd, units]     *)
(* with 0 <= units < UnitsPerUSD, so that the 5000 USD budget stays within *)
(* the integers of the model checker.                                      *)
(*                                                                         *)
(* Text.  A string is modelled by a record [ids, len]: its length, which   *)
(* is all the token estimate reads, and the identities of the pieces it    *)
(* is concatenated from, which tell two strings of the same length apart   *)
(* and are all the cache key reads.                                        *)
(***************************************************************************)
EXTENDS Integers, Sequences, FiniteSets, TLC

VARIABLES
    now,              \* time.time() / datetime.now(), in seconds
    today,            \* [year, month] of datetime.now()
    breakers,         \* LLMMonitor.circuit_breakers: provider id -> CircuitBreaker
    cache,            \* ResponseCache.cache: cache key -> entry, or None
    metrics,          \* MetricsCollector.metrics: the log of RequestMetrics
    provider_stats,   \* MetricsCollector.provider_stats: provider id -> aggregate, or None
    log_buffer,       \* LLMMonitor.log_buffer: the telemetry records
    total_requests,   \* LLMMonitor.total_requests (token limiter)
    total_tokens,     \* LLMMonitor.total_tokens (token limiter)
    monthly_spending, \* LLMMonitor.monthly_spending
    current_month,    \* LLMMonitor.current_month
    current_year,     \* LLMMonitor.current_year
    inflight,         \* thread -> the generate call it has waiting in provider.generate, or None
    last              \* the last call made: operation, arguments, what it returned or raised

vars == <<now, today, breakers, cache, metrics, provider_stats, log_buffer,
          total_requests, total_tokens, monthly_spending, current_month,
          current_year, inflight, last>>

monitor_vars == <<cache, metrics, provider_stats, log_buffer, total_requests,
                  total_tokens, monthly_spending, current_month, current_year>>

\* Optional[T]: None is the empty sequence, a value x is <<x>>
None == <<>>
Some(x) == <<x>>

----------------------------------------------------------------------------
(* Bounds of the model *)

StartTime == 1          \* the clock at construction (time.time() is positive)
MaxBreakerTicks == 3     \* half recovery timeouts that pass under direct calls
MaxRequests == 11       \* results recorded on one breaker under direct calls
MaxCalls == 3           \* responses returned plus provider failures, over all generate calls
Slack == 6              \* characters tried on each side of a length at which a token count changes
MaxLatencies == 101     \* latencies a provider has recorded when its statistics are read
MaxRecorded == 3        \* records in the metrics log up to which direct calls of record add one

----------------------------------------------------------------------------
(* circuit_breaker.py *)

SUCCESS == "success"
FAIL == "fail"
IN_PROGRESS == "in_progress"
CircuitState == {SUCCESS, FAIL, IN_PROGRESS}

failure_threshold == 5
\* error_rate_threshold = 0.5, as the fraction 1/2
error_rate_threshold_num == 1
error_rate_threshold_den == 2
recovery_timeout_seconds == 30

\* CircuitBreaker.__init__
CircuitBreaker ==
    [state |-> SUCCESS, failure_count |-> 0, success_count |-> 0,
     total_requests |-> 0, last_failure_time |-> None, opened_at |-> None]

\* Python truth value of an Optional[float]: None and 0.0 are false
Truthy(x) == x # None /\ x[1] # 0

\* failure_count / total_requests if total_requests > 0 else 0, as a fraction
error_rate(cb) ==
    IF cb.total_requests > 0
    THEN [num |-> cb.failure_count, den |-> cb.total_requests]
    ELSE [num |-> 0, den |-> 1]

\* error_rate >= self.error_rate_threshold
RateAtThreshold(cb) ==
    error_rate(cb).num * error_rate_threshold_den
        >= error_rate_threshold_num * error_rate(cb).den

record_success_keeps_count(cb) ==
    LET c1 == [cb EXCEPT !.success_count = @ + 1, !.total_requests = @ + 1]
    IN  IF c1.state = IN_PROGRESS
        THEN [c1 EXCEPT !.state = SUCCESS, !.opened_at = None]
        ELSE c1

record_success_keeps_opened_at(cb) ==
    LET c1 == [cb EXCEPT !.success_count = @ + 1, !.total_requests = @ + 1]
    IN  IF c1.state = IN_PROGRESS
        THEN [c1 EXCEPT !.state = SUCCESS, !.failure_count = 0]
        ELSE c1

record_success(cb) ==
    LET c1 == [cb EXCEPT !.success_count = @ + 1, !.total_requests = @ + 1]
    IN  IF c1.state = IN_PROGRESS
        THEN [c1 EXCEPT !.state = SUCCESS, !.failure_count = 0, !.opened_at = None]
        ELSE c1

record_failure_reopen(cb, t) ==
    LET c1 == [cb EXCEPT !.failure_count = @ + 1, !.total_requests = @ + 1,
                         !.last_failure_time = Some(t)]
    IN  IF c1.state \in {SUCCESS, IN_PROGRESS}
        THEN IF c1.failure_count >= failure_threshold \/ RateAtThreshold(c1)
             THEN [c1 EXCEPT !.state = FAIL, !.opened_at = Some(t)]
             ELSE c1
        ELSE c1

record_failure_count_only(cb, t) ==
    LET c1 == [cb EXCEPT !.failure_count = @ + 1, !.total_requests = @ + 1,
                         !.last_failure_time = Some(t)]
    IN  IF c1.state = SUCCESS
        THEN IF c1.failure_count >= failure_threshold
             THEN [c1 EXCEPT !.state = FAIL, !.opened_at = Some(t)]
             ELSE c1
        ELSE c1

record_failure(cb, t) ==
    LET c1 == [cb EXCEPT !.failure_count = @ + 1, !.total_requests = @ + 1,
                         !.last_failure_time = Some(t)]
    IN  IF c1.state = SUCCESS
        THEN IF c1.failure_count >= failure_threshold \/ RateAtThreshold(c1)
             THEN [c1 EXCEPT !.state = FAIL, !.opened_at = Some(t)]
             ELSE c1
        ELSE c1

can_attempt_strict(cb, t) ==
    IF cb.state = SUCCESS THEN [ret |-> TRUE, cb |-> cb]
    ELSE IF cb.state = FAIL
    THEN IF Truthy(cb.opened_at) /\ (t - cb.opened_at[1]) > recovery_timeout_seconds
         THEN [ret |-> TRUE, cb |-> [cb EXCEPT !.state = IN_PROGRESS]]
         ELSE [ret |-> FALSE, cb |-> cb]
    ELSE IF cb.state = IN_PROGRESS THEN [ret |-> TRUE, cb |-> cb]
    ELSE [ret |-> FALSE, cb |-> cb]

\* returns the answer and the breaker as the call leaves it
can_attempt(cb, t) ==
    IF cb.state = SUCCESS THEN [ret |-> TRUE, cb |-> cb]
    ELSE IF cb.state = FAIL
    THEN IF Truthy(cb.opened_at) /\ (t - cb.opened_at[1]) >= recovery_timeout_seconds
         THEN [ret |-> TRUE, cb |-> [cb EXCEPT !.state = IN_PROGRESS]]
         ELSE [ret |-> FALSE, cb |-> cb]
    ELSE IF cb.state = IN_PROGRESS THEN [ret |-> TRUE, cb |-> cb]
    ELSE [ret |-> FALSE, cb |-> cb]

get_state_closes(cb, t) ==
    IF cb.state = FAIL /\ Truthy(cb.opened_at)
       /\ (t - cb.opened_at[1]) >= recovery_timeout_seconds
    THEN [ret |-> SUCCESS, cb |-> [cb EXCEPT !.state = SUCCESS]]
    ELSE [ret |-> cb.state, cb |-> cb]

get_state(cb, t) ==
    IF cb.state = FAIL /\ Truthy(cb.opened_at)
       /\ (t - cb.opened_at[1]) >= recovery_timeout_seconds
    THEN [ret |-> IN_PROGRESS, cb |-> [cb EXCEPT !.state = IN_PROGRESS]]
    ELSE [ret |-> cb.state, cb |-> cb]

get_stats(cb) ==
    [state |-> cb.state, failure_count |-> cb.failure_count,
     success_count |-> cb.success_count, total_requests |-> cb.total_requests,
     error_rate |-> error_rate(cb), opened_at |-> cb.opened_at]

----------------------------------------------------------------------------
(* Money: exact amounts in units of 0.5e-6 USD *)

UnitsPerUSD == 2 * 1000 * 1000

Money(usd, units) == [usd |-> usd, units |-> units]

\* a + u, for an amount a and a cost u given in units
MoneyAdd(a, u) ==
    LET t == a.units + u
    IN  [usd |-> a.usd + (t \div UnitsPerUSD), units |-> t % UnitsPerUSD]

\* a > b
MoneyGT(a, b) == a.usd > b.usd \/ (a.usd = b.usd /\ a.units > b.units)

----------------------------------------------------------------------------
(* Text *)

Text(id, len) == [ids |-> <<id>>, len |-> len]
EmptyText == [ids |-> <<>>, len |-> 0]
Concat(a, b) == [ids |-> a.ids \o b.ids, len |-> a.len + b.len]

\* text[:n]; a cut inside a piece keeps the piece's identity
Prefix(a, n) == IF a.len <= n THEN a ELSE [ids |-> <<a.ids[1]>>, len |-> n]

\* system_prompt or ""
OrEmpty(x) == IF x = None THEN EmptyText ELSE x[1]

Min(a, b) == IF a < b THEN a ELSE b
Max(a, b) == IF a > b THEN a ELSE b

----------------------------------------------------------------------------
(* providers.py *)

\* prices per 1k tokens, in units: 0.03, 0.06, 0.003 and 0.015 USD
providers ==
    [openai |->
        [provider_id |-> "openai", model |-> "gpt-4", base_latency_ms |-> 1200,
         cost_per_1k_input |-> 60000, cost_per_1k_output |-> 120000,
         banner |-> Text("Mock response from openai (gpt-4) for: ", 39)],
     anthropic |->
        [provider_id |-> "anthropic", model |-> "claude-3-5-sonnet-20241022",
         base_latency_ms |-> 800,
         cost_per_1k_input |-> 6000, cost_per_1k_output |-> 30000,
         banner |-> Text("Mock response from anthropic (claude-3-5-sonnet-20241022) for: ", 63)]]

\* the order of the providers dict: the order circuit_breakers.items() yields
ProviderOrder == <<"openai", "anthropic">>
ProviderIds == {ProviderOrder[i] : i \in 1..Len(ProviderOrder)}

\* random.uniform(-200, 500).  The draw reaches nothing but the latency
\* fields of the response and of the records; the model takes the upper end.
LatencyJitter == {500}

\* MockLLMProvider.generate when it does not raise; jitter is the random draw
provider_generate(pid, prompt, system_prompt, jitter) ==
    LET input_text == Concat(OrEmpty(system_prompt), prompt)
        response_text ==
            Concat(Concat(providers[pid].banner, Prefix(prompt, 50)), Text("...", 3))
    IN  [content |-> response_text,
         input_tokens |-> input_text.len \div 4,
         output_tokens |-> response_text.len \div 4,
         model |-> providers[pid].model,
         provider |-> pid,
         latency_ms |-> providers[pid].base_latency_ms + jitter]

----------------------------------------------------------------------------
(* cache.py *)

ttl_seconds == 3600

\* md5 of the canonical JSON of the three fields: one key per content
generate_cache_key(user_profile, job_market_data, system_prompt) ==
    <<user_profile, job_market_data, OrEmpty(system_prompt)>>

EmptyCache == [k \in {} |-> None]

cache_get_keeps_expired(c, user_profile, job_market_data, system_prompt, t) ==
    LET cache_key == generate_cache_key(user_profile, job_market_data, system_prompt)
    IN  IF cache_key \notin DOMAIN c THEN [ret |-> None, cache |-> c]
        ELSE [ret |-> Some(c[cache_key].response), cache |-> c]

cache_get(c, user_profile, job_market_data, system_prompt, t) ==
    LET cache_key == generate_cache_key(user_profile, job_market_data, system_prompt)
    IN  IF cache_key \notin DOMAIN c THEN [ret |-> None, cache |-> c]
        ELSE IF t > c[cache_key].expires_at
        THEN [ret |-> None,
              cache |-> [k \in DOMAIN c \ {cache_key} |-> c[k]]]
        ELSE [ret |-> Some(c[cache_key].response), cache |-> c]

cache_set(c, user_profile, job_market_data, response, system_prompt, t) ==
    LET cache_key == generate_cache_key(user_profile, job_market_data, system_prompt)
        entry == [response |-> response, cached_at |-> t,
                  expires_at |-> t + ttl_seconds]
    IN  [k \in DOMAIN c \cup {cache_key} |-> IF k = cache_key THEN entry ELSE c[k]]

\* ResponseCache.clear
cache_clear(c) == EmptyCache

cache_get_stats_sweeps_at_expiry(c, t) ==
    LET expired_keys == {k \in DOMAIN c : t >= c[k].expires_at}
        swept == [k \in DOMAIN c \ expired_keys |-> c[k]]
    IN  [ret |-> [total_entries |-> Cardinality(DOMAIN swept),
                  ttl_seconds |-> ttl_seconds],
         cache |-> swept]

cache_get_stats(c, t) ==
    LET expired_keys == {k \in DOMAIN c : t > c[k].expires_at}
        swept == [k \in DOMAIN c \ expired_keys |-> c[k]]
    IN  [ret |-> [total_entries |-> Cardinality(DOMAIN swept),
                  ttl_seconds |-> ttl_seconds],
         cache |-> swept]

----------------------------------------------------------------------------
(* metrics.py *)

EmptyStats == [p \in {} |-> None]

\* the default of the provider_stats defaultdict
NewProviderStats ==
    [total_requests |-> 0, successful_requests |-> 0, failed_requests |-> 0,
     total_tokens |-> 0, total_cost |-> 0, latencies |-> <<>>]

metrics_record_successes_only(log, pstats, m) ==
    LET old == IF m.provider \in DOMAIN pstats THEN pstats[m.provider]
               ELSE NewProviderStats
        new == [old EXCEPT
                  !.total_requests = @ + 1,
                  !.total_tokens = @ + m.total_tokens,
                  !.total_cost = @ + m.cost_usd,
                  !.latencies = IF m.success THEN Append(@, m.latency_ms) ELSE @,
                  !.successful_requests = IF m.success THEN @ + 1 ELSE @,
                  !.failed_requests = IF m.success THEN @ ELSE @ + 1]
    IN  [metrics |-> Append(log, m),
         provider_stats |->
            [p \in DOMAIN pstats \cup {m.provider} |->
                IF p = m.provider THEN new ELSE pstats[p]]]

\* MetricsCollector.record: returns the log and the aggregates
metrics_record(log, pstats, m) ==
    LET old == IF m.provider \in DOMAIN pstats THEN pstats[m.provider]
               ELSE NewProviderStats
        new == [old EXCEPT
                  !.total_requests = @ + 1,
                  !.total_tokens = @ + m.total_tokens,
                  !.total_cost = @ + m.cost_usd,
                  !.latencies = Append(@, m.latency_ms),
                  !.successful_requests = IF m.success THEN @ + 1 ELSE @,
                  !.failed_requests = IF m.success THEN @ ELSE @ + 1]
    IN  [metrics |-> Append(log, m),
         provider_stats |->
            [p \in DOMAIN pstats \cup {m.provider} |->
                IF p = m.provider THEN new ELSE pstats[p]]]

get_total_requests(log) == Len(log)

\* MetricsCollector.clear
metrics_clear(log, pstats) == [metrics |-> <<>>, provider_stats |-> EmptyStats]

\* sorted(latencies)
sorted(latencies) == SortSeq(latencies, LAMBDA a, b : a < b)

RECURSIVE sum(_, _)
\* sum(latencies), from position i
sum(latencies, i) ==
    IF i > Len(latencies) THEN 0 ELSE latencies[i] + sum(latencies, i + 1)

get_provider_stats_unsorted(pstats, provider) ==
    IF provider \notin DOMAIN pstats THEN [stats |-> None, percentiles |-> None]
    ELSE IF pstats[provider].latencies = <<>>
    THEN [stats |-> Some(pstats[provider]), percentiles |-> None]
    ELSE LET stats == pstats[provider]
             latencies_sorted == stats.latencies
             n == Len(latencies_sorted)
         IN  [stats |-> Some(stats),
              percentiles |-> Some(
                [latency_p50 |-> latencies_sorted[n \div 2 + 1],
                 latency_p95 |-> IF n > 1 THEN latencies_sorted[(n * 95) \div 100 + 1]
                                 ELSE latencies_sorted[1],
                 latency_p99 |-> IF n > 1 THEN latencies_sorted[(n * 99) \div 100 + 1]
                                 ELSE latencies_sorted[1],
                 error_rate |-> [num |-> stats.failed_requests,
                                 den |-> stats.total_requests],
                 avg_latency |-> [num |-> sum(stats.latencies, 1), den |-> n],
                 min_latency |-> latencies_sorted[1],
                 max_latency |-> latencies_sorted[n]])]

\* MetricsCollector.get_provider_stats: `stats` is None for the empty dict
\* returned for an unknown provider and `percentiles` holds the keys added
\* when there are latencies.  Python's list positions 0..n-1 are the
\* positions 1..n here.  int(n * 0.95) and int(n * 0.99) are the exact
\* floors of 95n/100 and 99n/100 (the float products round to them for
\* every n up to 200000); the two quotients are kept as pairs.
get_provider_stats(pstats, provider) ==
    IF provider \notin DOMAIN pstats THEN [stats |-> None, percentiles |-> None]
    ELSE IF pstats[provider].latencies = <<>>
    THEN [stats |-> Some(pstats[provider]), percentiles |-> None]
    ELSE LET stats == pstats[provider]
             latencies_sorted == sorted(stats.latencies)
             n == Len(latencies_sorted)
         IN  [stats |-> Some(stats),
              percentiles |-> Some(
                [latency_p50 |-> latencies_sorted[n \div 2 + 1],
                 latency_p95 |-> IF n > 1 THEN latencies_sorted[(n * 95) \div 100 + 1]
                                 ELSE latencies_sorted[1],
                 latency_p99 |-> IF n > 1 THEN latencies_sorted[(n * 99) \div 100 + 1]
                                 ELSE latencies_sorted[1],
                 error_rate |-> [num |-> stats.failed_requests,
                                 den |-> stats.total_requests],
                 avg_latency |-> [num |-> sum(stats.latencies, 1), den |-> n],
                 min_latency |-> latencies_sorted[1],
                 max_latency |-> latencies_sorted[n]])]

----------------------------------------------------------------------------
(* monitor.py *)

max_tokens_average == 500
\* monthly_budget_usd = 5000.0
monthly_budget_usd == Money(5000, 0)
\* avg_input_cost = 0.0165 and avg_output_cost = 0.0375 USD per 1k tokens, in units
avg_input_cost == 33000
avg_output_cost == 75000
\* the latency_ms of a response synthesized from the cache
cache_hit_latency_ms == 10

estimate_tokens(text) == text.len \div 4

validate_tokens_inclusive(user_profile, job_market_data, system_prompt) ==
    LET input_text == Concat(Concat(OrEmpty(system_prompt), user_profile),
                             job_market_data)
        input_tokens == estimate_tokens(input_text)
        max_output == Max(0, max_tokens_average - input_tokens)
    IN  IF input_tokens >= max_tokens_average
        THEN [valid |-> FALSE, input_tokens |-> input_tokens, max_output |-> 0]
        ELSE [valid |-> TRUE, input_tokens |-> input_tokens,
              max_output |-> max_output]

validate_tokens(user_profile, job_market_data, system_prompt) ==
    LET input_text == Concat(Concat(OrEmpty(system_prompt), user_profile),
                             job_market_data)
        input_tokens == estimate_tokens(input_text)
        max_output == Max(0, max_tokens_average - input_tokens)
    IN  IF input_tokens > max_tokens_average
        THEN [valid |-> FALSE, input_tokens |-> input_tokens, max_output |-> 0]
        ELSE [valid |-> TRUE, input_tokens |-> input_tokens,
              max_output |-> max_output]

\* (tokens / 1000) * price, in units; every price is a multiple of 1000 units
PerThousand(tokens, price) == (tokens * price) \div 1000

\* generate, lines 128-132
estimated_cost(token_check) ==
    PerThousand(token_check.input_tokens, avg_input_cost)
        + PerThousand(token_check.max_output, avg_output_cost)

check_budget_stale(spending, month, year, cost, date) ==
    LET rolled == date.month # month \/ date.year # year
        spending1 == IF rolled THEN Money(0, 0) ELSE spending
    IN  [allowed |-> ~MoneyGT(MoneyAdd(spending, cost), monthly_budget_usd),
         monthly_spending |-> spending1,
         current_month |-> IF rolled THEN date.month ELSE month,
         current_year |-> IF rolled THEN date.year ELSE year]

check_budget_month_only(spending, month, year, cost, date) ==
    LET rolled == date.month # month
        spending1 == IF rolled THEN Money(0, 0) ELSE spending
    IN  [allowed |-> ~MoneyGT(MoneyAdd(spending1, cost), monthly_budget_usd),
         monthly_spending |-> spending1,
         current_month |-> IF rolled THEN date.month ELSE month,
         current_year |-> IF rolled THEN date.year ELSE year]

\* returns the verdict and the budget window as the call leaves it
check_budget(spending, month, year, cost, date) ==
    LET rolled == date.month # month \/ date.year # year
        spending1 == IF rolled THEN Money(0, 0) ELSE spending
    IN  [allowed |-> ~MoneyGT(MoneyAdd(spending1, cost), monthly_budget_usd),
         monthly_spending |-> spending1,
         current_month |-> IF rolled THEN date.month ELSE month,
         current_year |-> IF rolled THEN date.year ELSE year]

calculate_cost(provider_id, input_tokens, output_tokens) ==
    PerThousand(input_tokens, providers[provider_id].cost_per_1k_input)
        + PerThousand(output_tokens, providers[provider_id].cost_per_1k_output)

\* the loop of _select_provider over circuit_breakers.items(), from position i
RECURSIVE select_provider_scan(_, _, _)
select_provider_scan(cbs, i, t) ==
    IF i > Len(ProviderOrder) THEN [ret |-> None, cbs |-> cbs]
    ELSE LET provider_id == ProviderOrder[i]
             r == can_attempt(cbs[provider_id], t)
             cbs1 == [cbs EXCEPT ![provider_id] = r.cb]
         IN  IF r.ret THEN [ret |-> Some(provider_id), cbs |-> cbs1]
             ELSE select_provider_scan(cbs1, i + 1, t)

select_provider_skips_preferred(cbs, preferred, t) ==
    LET scan == select_provider_scan(cbs, 1, t)
    IN  IF scan.ret # None THEN [ret |-> scan.ret[1], cbs |-> scan.cbs]
        ELSE [ret |-> IF preferred # None THEN preferred[1]
                      ELSE ProviderOrder[1],
              cbs |-> scan.cbs]

\* returns the id chosen and the breakers as the calls to can_attempt leave them
select_provider(cbs, preferred, t) ==
    LET ask == preferred # None /\ preferred[1] \in ProviderIds
        r == can_attempt(cbs[preferred[1]], t)
        cbs1 == IF ask THEN [cbs EXCEPT ![preferred[1]] = r.cb] ELSE cbs
    IN  IF ask /\ r.ret THEN [ret |-> preferred[1], cbs |-> cbs1]
        ELSE LET scan == select_provider_scan(cbs1, 1, t)
             IN  IF scan.ret # None THEN [ret |-> scan.ret[1], cbs |-> scan.cbs]
                 ELSE [ret |-> IF preferred # None THEN preferred[1]
                               ELSE ProviderOrder[1],
                       cbs |-> scan.cbs]

\* the loop of _get_failover_provider, from position i
RECURSIVE get_failover_provider_scan(_, _, _, _)
get_failover_provider_scan(cbs, current_provider, i, t) ==
    IF i > Len(ProviderOrder) THEN [ret |-> None, cbs |-> cbs]
    ELSE LET provider_id == ProviderOrder[i]
             r == can_attempt(cbs[provider_id], t)
             cbs1 == [cbs EXCEPT ![provider_id] = r.cb]
         IN  IF provider_id = current_provider
             THEN get_failover_provider_scan(cbs, current_provider, i + 1, t)
             ELSE IF r.ret THEN [ret |-> Some(provider_id), cbs |-> cbs1]
             ELSE get_failover_provider_scan(cbs1, current_provider, i + 1, t)

get_failover_provider_unasked(cbs, current_provider, t) ==
    LET others == {i \in 1..Len(ProviderOrder) : ProviderOrder[i] # current_provider}
    IN  IF others = {} THEN [ret |-> None, cbs |-> cbs]
        ELSE [ret |-> Some(ProviderOrder[CHOOSE i \in others : \A j \in others : i <= j]),
              cbs |-> cbs]

get_failover_provider(cbs, current_provider, t) ==
    get_failover_provider_scan(cbs, current_provider, 1, t)

\* _log_telemetry: returns the buffer and the breakers as get_state leaves them
log_telemetry(buffer, cbs, m, cache_hit, t) ==
    LET gs == get_state(cbs[m.provider], t)
        log_entry == [provider |-> m.provider, model |-> m.model,
                      latency_ms |-> m.latency_ms,
                      tokens |-> [input |-> m.input_tokens,
                                  output |-> m.output_tokens,
                                  total |-> m.total_tokens],
                      cost_usd |-> m.cost_usd, success |-> m.success,
                      error |-> m.error, cache_hit |-> cache_hit,
                      circuit_breaker_state |-> gs.ret]
    IN  [log_buffer |-> Append(buffer, log_entry),
         breakers |-> [cbs EXCEPT ![m.provider] = gs.cb]]

----------------------------------------------------------------------------
(* LLMMonitor.generate.  The monitor's state is passed as a record m with   *)
(* one field per attribute; the result holds the state as the call leaves   *)
(* it and what the caller sees: `raised` (None when a response is           *)
(* returned), `response`, `called` (the providers whose generate was        *)
(* invoked, in order), `selected` and `cache_hit`.                          *)

Monitor ==
    [breakers |-> breakers, cache |-> cache, metrics |-> metrics,
     provider_stats |-> provider_stats, log_buffer |-> log_buffer,
     total_requests |-> total_requests, total_tokens |-> total_tokens,
     monthly_spending |-> monthly_spending, current_month |-> current_month,
     current_year |-> current_year]

TOKEN_LIMIT == "ValueError: Token limit exceeded"
BUDGET_LIMIT == "ValueError: Budget limit exceeded"
ALL_UNAVAILABLE == "Exception: All providers unavailable"
KEY_ERROR == "KeyError"
PROVIDER_ERROR == "Exception: API error: Service unavailable"

\* the call ends by raising `what`
Raise(m, what, called, selected) ==
    [monitor |-> m, raised |-> Some(what), response |-> None,
     called |-> called, selected |-> selected, cache_hit |-> FALSE]

generate_record_stored_price(m, req, selected_provider, response, cached, called, t) ==
    LET tokens == response.input_tokens + response.output_tokens
        cost == calculate_cost(response.provider, response.input_tokens,
                               response.output_tokens)
        rm == [provider |-> response.provider, model |-> response.model,
               latency_ms |-> IF cached THEN 0 ELSE response.latency_ms,
               input_tokens |-> response.input_tokens,
               output_tokens |-> response.output_tokens,
               total_tokens |-> tokens, cost_usd |-> cost,
               success |-> TRUE, error |-> None]
        rec == metrics_record(m.metrics, m.provider_stats, rm)
        tel == log_telemetry(m.log_buffer, m.breakers, rm, cached, t)
    IN  [monitor |->
            [m EXCEPT !.total_requests = @ + 1,
                      !.total_tokens = @ + tokens,
                      !.monthly_spending = MoneyAdd(@, cost),
                      !.metrics = rec.metrics,
                      !.provider_stats = rec.provider_stats,
                      !.log_buffer = tel.log_buffer,
                      !.breakers = tel.breakers],
         raised |-> None, response |-> Some(response), called |-> called,
         selected |-> Some(selected_provider), cache_hit |-> cached]

\* lines 189-220: token tracking, cost, metrics and telemetry of a response.
\* latency_ms is the time the call took: the provider's latency when it was
\* called, nothing measurable on a cache hit.
generate_record(m, req, selected_provider, response, cached, called, t) ==
    LET tokens == response.input_tokens + response.output_tokens
        cost == calculate_cost(selected_provider, response.input_tokens,
                               response.output_tokens)
        rm == [provider |-> response.provider, model |-> response.model,
               latency_ms |-> IF cached THEN 0 ELSE response.latency_ms,
               input_tokens |-> response.input_tokens,
               output_tokens |-> response.output_tokens,
               total_tokens |-> tokens, cost_usd |-> cost,
               success |-> TRUE, error |-> None]
        rec == metrics_record(m.metrics, m.provider_stats, rm)
        tel == log_telemetry(m.log_buffer, m.breakers, rm, cached, t)
    IN  [monitor |->
            [m EXCEPT !.total_requests = @ + 1,
                      !.total_tokens = @ + tokens,
                      !.monthly_spending = MoneyAdd(@, cost),
                      !.metrics = rec.metrics,
                      !.provider_stats = rec.provider_stats,
                      !.log_buffer = tel.log_buffer,
                      !.breakers = tel.breakers],
         raised |-> None, response |-> Some(response), called |-> called,
         selected |-> Some(selected_provider), cache_hit |-> cached]

generate_serve_probes_hit(m, req, selected_provider, t, fails, jitter) ==
    LET cg == cache_get(m.cache, req.user_profile, req.job_market_data,
                        req.system_prompt, t)
        m1 == [m EXCEPT !.cache = cg.cache]
        combined_prompt ==
            Concat(Concat(Concat(Text("User Profile: ", 14), req.user_profile),
                          Text("\n\nJob Market Data: ", 19)),
                   req.job_market_data)
        response == provider_generate(selected_provider, combined_prompt,
                                      req.system_prompt, jitter)
    IN  IF cg.ret # None
        THEN generate_record([m1 EXCEPT !.breakers[selected_provider] =
                                              record_success(@)],
                 req, selected_provider,
                 [content |-> cg.ret[1].content,
                  input_tokens |-> cg.ret[1].input_tokens,
                  output_tokens |-> cg.ret[1].output_tokens,
                  model |-> cg.ret[1].model,
                  provider |-> cg.ret[1].provider,
                  latency_ms |-> cache_hit_latency_ms],
                 TRUE, <<>>, t)
        ELSE IF fails
        THEN Raise([m1 EXCEPT !.breakers[selected_provider] =
                                    record_failure(@, t)],
                   PROVIDER_ERROR, <<selected_provider>>, Some(selected_provider))
        ELSE generate_record(
                 [m1 EXCEPT
                    !.breakers[selected_provider] = record_success(@),
                    !.cache = cache_set(@, req.user_profile, req.job_market_data,
                                  [content |-> response.content,
                                   input_tokens |-> response.input_tokens,
                                   output_tokens |-> response.output_tokens,
                                   model |-> response.model,
                                   provider |-> response.provider],
                                  req.system_prompt, t)],
                 req, selected_provider, response, FALSE,
                 <<selected_provider>>, t)

generate_serve_retries(m, req, selected_provider, t, fails, jitter) ==
    LET cg == cache_get(m.cache, req.user_profile, req.job_market_data,
                        req.system_prompt, t)
        m1 == [m EXCEPT !.cache = cg.cache]
        combined_prompt ==
            Concat(Concat(Concat(Text("User Profile: ", 14), req.user_profile),
                          Text("\n\nJob Market Data: ", 19)),
                   req.job_market_data)
        response == provider_generate(selected_provider, combined_prompt,
                                      req.system_prompt, jitter)
    IN  IF cg.ret # None
        THEN generate_record(m1, req, selected_provider,
                 [content |-> cg.ret[1].content,
                  input_tokens |-> cg.ret[1].input_tokens,
                  output_tokens |-> cg.ret[1].output_tokens,
                  model |-> cg.ret[1].model,
                  provider |-> cg.ret[1].provider,
                  latency_ms |-> cache_hit_latency_ms],
                 TRUE, <<>>, t)
        ELSE IF fails
        THEN Raise([m1 EXCEPT !.breakers[selected_provider] =
                                    record_failure(record_failure(@, t), t)],
                   PROVIDER_ERROR, <<selected_provider, selected_provider>>,
                   Some(selected_provider))
        ELSE generate_record(
                 [m1 EXCEPT
                    !.breakers[selected_provider] = record_success(@),
                    !.cache = cache_set(@, req.user_profile, req.job_market_data,
                                  [content |-> response.content,
                                   input_tokens |-> response.input_tokens,
                                   output_tokens |-> response.output_tokens,
                                   model |-> response.model,
                                   provider |-> response.provider],
                                  req.system_prompt, t)],
                 req, selected_provider, response, FALSE,
                 <<selected_provider>>, t)

generate_serve_blames_preferred(m, req, selected_provider, t, fails, jitter) ==
    LET cg == cache_get(m.cache, req.user_profile, req.job_market_data,
                        req.system_prompt, t)
        m1 == [m EXCEPT !.cache = cg.cache]
        combined_prompt ==
            Concat(Concat(Concat(Text("User Profile: ", 14), req.user_profile),
                          Text("\n\nJob Market Data: ", 19)),
                   req.job_market_data)
        response == provider_generate(selected_provider, combined_prompt,
                                      req.system_prompt, jitter)
    IN  IF cg.ret # None
        THEN generate_record(m1, req, selected_provider,
                 [content |-> cg.ret[1].content,
                  input_tokens |-> cg.ret[1].input_tokens,
                  output_tokens |-> cg.ret[1].output_tokens,
                  model |-> cg.ret[1].model,
                  provider |-> cg.ret[1].provider,
                  latency_ms |-> cache_hit_latency_ms],
                 TRUE, <<>>, t)
        ELSE IF fails
        THEN Raise([m1 EXCEPT !.breakers[IF req.provider # None
                                             /\ req.provider[1] \in ProviderIds
                                          THEN req.provider[1]
                                          ELSE selected_provider] =
                                    record_failure(@, t)],
                   PROVIDER_ERROR, <<selected_provider>>, Some(selected_provider))
        ELSE generate_record(
                 [m1 EXCEPT
                    !.breakers[selected_provider] = record_success(@),
                    !.cache = cache_set(@, req.user_profile, req.job_market_data,
                                  [content |-> response.content,
                                   input_tokens |-> response.input_tokens,
                                   output_tokens |-> response.output_tokens,
                                   model |-> response.model,
                                   provider |-> response.provider],
                                  req.system_prompt, t)],
                 req, selected_provider, response, FALSE,
                 <<selected_provider>>, t)

\* lines 152-187: the cache lookup and, on a miss, the provider call
generate_serve(m, req, selected_provider, t, fails, jitter) ==
    LET cg == cache_get(m.cache, req.user_profile, req.job_market_data,
                        req.system_prompt, t)
        m1 == [m EXCEPT !.cache = cg.cache]
        combined_prompt ==
            Concat(Concat(Concat(Text("User Profile: ", 14), req.user_profile),
                          Text("\n\nJob Market Data: ", 19)),
                   req.job_market_data)
        response == provider_generate(selected_provider, combined_prompt,
                                      req.system_prompt, jitter)
    IN  IF cg.ret # None
        THEN generate_record(m1, req, selected_provider,
                 [content |-> cg.ret[1].content,
                  input_tokens |-> cg.ret[1].input_tokens,
                  output_tokens |-> cg.ret[1].output_tokens,
                  model |-> cg.ret[1].model,
                  provider |-> cg.ret[1].provider,
                  latency_ms |-> cache_hit_latency_ms],
                 TRUE, <<>>, t)
        ELSE IF fails
        THEN Raise([m1 EXCEPT !.breakers[selected_provider] =
                                    record_failure(@, t)],
                   PROVIDER_ERROR, <<selected_provider>>, Some(selected_provider))
        ELSE generate_record(
                 [m1 EXCEPT
                    !.breakers[selected_provider] = record_success(@),
                    !.cache = cache_set(@, req.user_profile, req.job_market_data,
                                  [content |-> response.content,
                                   input_tokens |-> response.input_tokens,
                                   output_tokens |-> response.output_tokens,
                                   model |-> response.model,
                                   provider |-> response.provider],
                                  req.system_prompt, t)],
                 req, selected_provider, response, FALSE,
                 <<selected_provider>>, t)

generate_select_unguarded(m, req, t, fails, jitter) ==
    generate_serve(m, req,
                   IF req.provider # None /\ req.provider[1] \in ProviderIds
                   THEN req.provider[1] ELSE ProviderOrder[1],
                   t, fails, jitter)

\* lines 138-150: provider selection with failover
generate_select(m, req, t, fails, jitter) ==
    LET sel == select_provider(m.breakers, req.provider, t)
        ca == can_attempt(sel.cbs[sel.ret], t)
        cbs2 == [sel.cbs EXCEPT ![sel.ret] = ca.cb]
        failover == get_failover_provider(cbs2, sel.ret, t)
    IN  IF sel.ret \notin ProviderIds
        THEN \* self.providers[selected_provider] raises KeyError
             Raise([m EXCEPT !.breakers = sel.cbs], KEY_ERROR, <<>>, None)
        ELSE IF ca.ret
        THEN generate_serve([m EXCEPT !.breakers = cbs2], req, sel.ret, t,
                            fails, jitter)
        ELSE IF failover.ret # None
        THEN generate_serve([m EXCEPT !.breakers = failover.cbs], req,
                            failover.ret[1], t, fails, jitter)
        ELSE Raise([m EXCEPT !.breakers = failover.cbs], ALL_UNAVAILABLE,
                   <<>>, None)

generate_budget_first(m, req, t, date, fails, jitter) ==
    LET token_check == validate_tokens(req.user_profile, req.job_market_data,
                                       req.system_prompt)
        budget_check == check_budget(m.monthly_spending, m.current_month,
                                     m.current_year, estimated_cost(token_check),
                                     date)
        m1 == [m EXCEPT !.monthly_spending = budget_check.monthly_spending,
                        !.current_month = budget_check.current_month,
                        !.current_year = budget_check.current_year]
    IN  IF ~budget_check.allowed THEN Raise(m1, BUDGET_LIMIT, <<>>, None)
        ELSE IF ~token_check.valid THEN Raise(m1, TOKEN_LIMIT, <<>>, None)
        ELSE generate_select(m1, req, t, fails, jitter)

\* lines 122-136, then the rest of the pipeline
generate(m, req, t, date, fails, jitter) ==
    LET token_check == validate_tokens(req.user_profile, req.job_market_data,
                                       req.system_prompt)
        budget_check == check_budget(m.monthly_spending, m.current_month,
                                     m.current_year, estimated_cost(token_check),
                                     date)
        m1 == [m EXCEPT !.monthly_spending = budget_check.monthly_spending,
                        !.current_month = budget_check.current_month,
                        !.current_year = budget_check.current_year]
    IN  IF ~token_check.valid THEN Raise(m, TOKEN_LIMIT, <<>>, None)
        ELSE IF ~budget_check.allowed THEN Raise(m1, BUDGET_LIMIT, <<>>, None)
        ELSE generate_select(m1, req, t, fails, jitter)

\* generate from its first line to the call of provider_instance.generate
\* (lines 119-173), where the thread waits for the provider.  `pending` is
\* None when the call has ended before that line, by raising or with a
\* cache hit, and `result` is then what generate returns; otherwise it holds
\* the local variables of the waiting call.
generate_enter(m, req, t, date) ==
    LET token_check == validate_tokens(req.user_profile, req.job_market_data,
                                       req.system_prompt)
        budget_check == check_budget(m.monthly_spending, m.current_month,
                                     m.current_year, estimated_cost(token_check),
                                     date)
        m1 == [m EXCEPT !.monthly_spending = budget_check.monthly_spending,
                        !.current_month = budget_check.current_month,
                        !.current_year = budget_check.current_year]
        sel == select_provider(m1.breakers, req.provider, t)
        ca == can_attempt(sel.cbs[sel.ret], t)
        cbs2 == [sel.cbs EXCEPT ![sel.ret] = ca.cb]
        failover == get_failover_provider(cbs2, sel.ret, t)
        selected_provider == IF ca.ret THEN Some(sel.ret) ELSE failover.ret
        cbs3 == IF ca.ret THEN cbs2 ELSE failover.cbs
        cg == cache_get(m1.cache, req.user_profile, req.job_market_data,
                        req.system_prompt, t)
        ended == \/ ~token_check.valid
                 \/ ~budget_check.allowed
                 \/ sel.ret \notin ProviderIds
                 \/ selected_provider = None
                 \/ cg.ret # None
        result == generate(m, req, t, date, FALSE, 0)
    IN  IF ended
        THEN [pending |-> None, monitor |-> result.monitor, result |-> Some(result)]
        ELSE [pending |-> Some([request |-> req,
                                selected_provider |-> selected_provider[1],
                                admitted_in |-> cbs3[selected_provider[1]].state]),
              monitor |-> [m1 EXCEPT !.breakers = cbs3, !.cache = cg.cache],
              result |-> None]

\* generate from the return of provider_instance.generate on (lines 173-220)
generate_leave(m, pending, t, fails, jitter) ==
    LET req == pending.request
        selected_provider == pending.selected_provider
        combined_prompt ==
            Concat(Concat(Concat(Text("User Profile: ", 14), req.user_profile),
                          Text("\n\nJob Market Data: ", 19)),
                   req.job_market_data)
        response == provider_generate(selected_provider, combined_prompt,
                                      req.system_prompt, jitter)
    IN  IF fails
        THEN Raise([m EXCEPT !.breakers[selected_provider] = record_failure(@, t)],
                   PROVIDER_ERROR, <<selected_provider>>, Some(selected_provider))
        ELSE generate_record(
                 [m EXCEPT
                    !.breakers[selected_provider] = record_success(@),
                    !.cache = cache_set(@, req.user_profile, req.job_market_data,
                                  [content |-> response.content,
                                   input_tokens |-> response.input_tokens,
                                   output_tokens |-> response.output_tokens,
                                   model |-> response.model,
                                   provider |-> response.provider],
                                  req.system_prompt, t)],
                 req, selected_provider, response, FALSE,
                 <<selected_provider>>, t)

\* LLMMonitor.get_stats: the cache sweep is its only effect
monitor_get_stats(m, t) ==
    LET cs == cache_get_stats(m.cache, t)
    IN  [monitor |-> [m EXCEPT !.cache = cs.cache],
         ret |-> [total_requests |-> get_total_requests(m.metrics),
                  monthly_spending_usd |-> m.monthly_spending,
                  within_budget |-> MoneyGT(monthly_budget_usd, m.monthly_spending),
                  cache |-> cs.ret,
                  circuit_breakers |->
                      [p \in ProviderIds |-> get_stats(m.breakers[p])]]]

----------------------------------------------------------------------------
(* Inputs *)

\* the threads that call generate
Threads == {1, 2}

\* no preference, each configured provider, and an id that is not configured
Preferred == {None, Some("openai"), Some("anthropic"), Some("azure")}

\* The texts of a request: a short profile (20 input tokens) without a system
\* prompt and with the empty one, a profile that brings the input to exactly
\* 500 tokens, and one that brings it to 501.
Contents ==
    {[user_profile |-> Text("profile", 40), job_market_data |-> Text("jobs", 40),
      system_prompt |-> None],
     [user_profile |-> Text("profile", 40), job_market_data |-> Text("jobs", 40),
      system_prompt |-> Some(EmptyText)],
     [user_profile |-> Text("profile_500", 1960), job_market_data |-> Text("jobs", 40),
      system_prompt |-> None],
     [user_profile |-> Text("profile_501", 1964), job_market_data |-> Text("jobs", 40),
      system_prompt |-> None]}

\* Every preference with the contents that have no system prompt and
\* are within the token limit; the other two contents, which differ from
\* these only in the token check and in the spelling of the cache key, with
\* no preference and with the first provider.
Requests ==
    {[user_profile |-> c.user_profile, job_market_data |-> c.job_market_data,
      system_prompt |-> c.system_prompt, provider |-> p] :
        c \in {x \in Contents : x.system_prompt = None /\ x.user_profile.len < 1964},
        p \in Preferred}
    \cup
    {[user_profile |-> c.user_profile, job_market_data |-> c.job_market_data,
      system_prompt |-> c.system_prompt, provider |-> p] :
        c \in Contents, p \in {None, Some(ProviderOrder[1])}}

\* the instants at which the monitor is called: at construction, one recovery
\* timeout later, and one cache TTL after that
ClockValues ==
    {StartTime, StartTime + recovery_timeout_seconds,
     StartTime + recovery_timeout_seconds + ttl_seconds}

\* the calendar periods the clock passes through: the month of construction
\* and the same month of the next year
Periods == <<[year |-> 2026, month |-> 11], [year |-> 2027, month |-> 11]>>

\* What the period has spent when the model starts: nothing, or all of the
\* budget but 16510 units (0.008255 USD), which admits the 500-token request
\* (estimate 16500 units) and no other.  Both are sums of request costs,
\* which are multiples of 6 units.
InitialSpending == {Money(0, 0), Money(4999, UnitsPerUSD - 16510)}

----------------------------------------------------------------------------
(* The state machine *)

\* LLMMonitor.__init__
Init ==
    /\ now = StartTime
    /\ today = Periods[1]
    /\ breakers = [p \in ProviderIds |-> CircuitBreaker]
    /\ cache = EmptyCache
    /\ metrics = <<>>
    /\ provider_stats = EmptyStats
    /\ log_buffer = <<>>
    /\ total_requests = 0
    /\ total_tokens = 0
    /\ monthly_spending \in InitialSpending
    /\ current_month = today.month
    /\ current_year = today.year
    /\ inflight = [th \in Threads |-> None]
    /\ last = [op |-> "init"]

\* time passes
Tick ==
    /\ \E t \in ClockValues : t > now /\ now' = t
    /\ UNCHANGED inflight
    /\ last' = [op |-> "tick"]
    /\ UNCHANGED <<today, breakers, monitor_vars>>

\* the calendar passes into a later period
NewPeriod ==
    /\ \E i, j \in 1..Len(Periods) : today = Periods[i] /\ j > i /\ today' = Periods[j]
    /\ UNCHANGED inflight
    /\ last' = [op |-> "new_period"]
    /\ UNCHANGED <<now, breakers, monitor_vars>>

\* the provider failures the breakers have recorded
Failures(cbs) ==
    (cbs["openai"].total_requests - cbs["openai"].success_count)
        + (cbs["anthropic"].total_requests - cbs["anthropic"].success_count)

\* monitor.generate(user_profile, job_market_data, system_prompt, provider)
Generate(req, fails, jitter) ==
    \E g \in {generate(Monitor, req, now, today, fails, jitter)} :
        /\ g.monitor.total_requests + Failures(g.monitor.breakers) <= MaxCalls
        /\ breakers' = g.monitor.breakers
        /\ cache' = g.monitor.cache
        /\ metrics' = g.monitor.metrics
        /\ provider_stats' = g.monitor.provider_stats
        /\ log_buffer' = g.monitor.log_buffer
        /\ total_requests' = g.monitor.total_requests
        /\ total_tokens' = g.monitor.total_tokens
        /\ monthly_spending' = g.monitor.monthly_spending
        /\ current_month' = g.monitor.current_month
        /\ current_year' = g.monitor.current_year
        /\ UNCHANGED inflight
        /\ last' = [op |-> "generate", request |-> req, raised |-> g.raised,
                    response |-> g.response, called |-> g.called,
                    selected |-> g.selected, cache_hit |-> g.cache_hit]
        /\ UNCHANGED <<now, today>>

\* monitor.get_stats()
GetStats ==
    \E g \in {monitor_get_stats(Monitor, now)} :
        /\ cache' = g.monitor.cache
        /\ UNCHANGED inflight
        /\ last' = [op |-> "get_stats", ret |-> g.ret]
        /\ UNCHANGED <<now, today, breakers, metrics, provider_stats, log_buffer,
                       total_requests, total_tokens, monthly_spending,
                       current_month, current_year>>

Next ==
    \/ Tick
    \/ NewPeriod
    \/ \E req \in Requests, fails \in BOOLEAN, jitter \in LatencyJitter :
         Generate(req, fails, jitter)
    \/ GetStats

Spec == Init /\ [][Next]_vars

----------------------------------------------------------------------------
(* One CircuitBreaker under direct calls of its methods, in any order *)

\* the breaker of p is the one under test: the others are as constructed
Driven(p) == \A q \in ProviderIds \ {p} : breakers[q] = CircuitBreaker

RecordSuccess(p) ==
    /\ Driven(p)
    /\ breakers[p].total_requests < MaxRequests
    /\ breakers' = [breakers EXCEPT ![p] = record_success(@)]
    /\ UNCHANGED inflight
    /\ last' = [op |-> "record_success", provider |-> p]
    /\ UNCHANGED <<now, today, monitor_vars>>

RecordFailure(p) ==
    /\ Driven(p)
    /\ breakers[p].total_requests < MaxRequests
    /\ breakers' = [breakers EXCEPT ![p] = record_failure(@, now)]
    /\ UNCHANGED inflight
    /\ last' = [op |-> "record_failure", provider |-> p]
    /\ UNCHANGED <<now, today, monitor_vars>>

CanAttempt(p) ==
    /\ Driven(p)
    /\ breakers' = [breakers EXCEPT ![p] = can_attempt(@, now).cb]
    /\ UNCHANGED inflight
    /\ last' = [op |-> "can_attempt", provider |-> p,
                ret |-> can_attempt(breakers[p], now).ret]
    /\ UNCHANGED <<now, today, monitor_vars>>

GetState(p) ==
    /\ Driven(p)
    /\ breakers' = [breakers EXCEPT ![p] = get_state(@, now).cb]
    /\ UNCHANGED inflight
    /\ last' = [op |-> "get_state", provider |-> p,
                ret |-> get_state(breakers[p], now).ret]
    /\ UNCHANGED <<now, today, monitor_vars>>

BreakerGetStats(p) ==
    /\ Driven(p)
    /\ UNCHANGED inflight
    /\ last' = [op |-> "breaker_get_stats", provider |-> p,
                ret |-> get_stats(breakers[p])]
    /\ UNCHANGED <<now, today, breakers, monitor_vars>>

\* the instants at which the breaker is called: from construction on, every
\* half recovery timeout
BreakerClockValues ==
    {StartTime + (recovery_timeout_seconds \div 2) * a : a \in 0..MaxBreakerTicks}

\* time passes
BreakerTick ==
    /\ \E t \in BreakerClockValues : t > now /\ now' = t
    /\ UNCHANGED inflight
    /\ last' = [op |-> "tick"]
    /\ UNCHANGED <<today, breakers, monitor_vars>>

NextBreaker ==
    \/ BreakerTick
    \/ \E p \in ProviderIds : RecordSuccess(p)
    \/ \E p \in ProviderIds : RecordFailure(p)
    \/ \E p \in ProviderIds : CanAttempt(p)
    \/ \E p \in ProviderIds : GetState(p)
    \/ \E p \in ProviderIds : BreakerGetStats(p)

SpecBreaker == Init /\ [][NextBreaker]_vars

----------------------------------------------------------------------------
(* Properties of the CircuitBreaker, under SpecBreaker.  Closed, Open and   *)
(* HalfOpen are the states SUCCESS, FAIL and IN_PROGRESS.                   *)

\* the step is a call of method op on the breaker of p
Called(op, p) == last'.op = op /\ last'.provider = p

\* C1: a record_failure() on a Closed breaker adds one to failure_count and to
\* total_requests, and opens the breaker, with opened_at the current time, if
\* and only if failure_count >= failure_threshold or failure_count /
\* total_requests >= error_rate_threshold; so the first failure of a fresh
\* breaker opens it, and further failures leave it Open and are counted.
C1_RecordFailureClosed ==
    [][\A p \in ProviderIds :
         Called("record_failure", p) =>
            LET b == breakers[p]
                b2 == breakers'[p]
                fc == b.failure_count + 1
                tr == b.total_requests + 1
                opens == fc >= failure_threshold
                         \/ fc * error_rate_threshold_den
                              >= error_rate_threshold_num * tr
            IN  /\ b.state = SUCCESS =>
                     /\ b2.failure_count = fc
                     /\ b2.total_requests = tr
                     /\ opens => b2.state = FAIL /\ b2.opened_at = Some(now)
                     /\ ~opens => b2.state = SUCCESS /\ b2.opened_at = b.opened_at
                /\ b = CircuitBreaker => b2.state = FAIL /\ b2.failure_count = 1
                /\ b.state = FAIL =>
                     b2.state = FAIL /\ b2.failure_count = fc
      ]_vars

\* five failures and nothing else recorded: Open with failure_count = 5
C1_Witness ==
    \E p \in ProviderIds :
        /\ last.op = "record_failure" /\ last.provider = p
        /\ breakers[p].state = FAIL
        /\ breakers[p].failure_count = 5
        /\ breakers[p].total_requests = 5

\* C2: can_attempt() returns true in Closed and in HalfOpen; in Open it returns
\* false while now - opened_at < recovery_timeout_seconds and leaves the
\* breaker Open, and from then on returns true and leaves it HalfOpen.
C2_CanAttempt ==
    [][\A p \in ProviderIds :
         Called("can_attempt", p) =>
            LET b == breakers[p]
            IN  /\ b.state \in {SUCCESS, IN_PROGRESS} => last'.ret = TRUE
                /\ b.state = FAIL /\ now - b.opened_at[1] < recovery_timeout_seconds =>
                     last'.ret = FALSE /\ breakers'[p].state = FAIL
                /\ b.state = FAIL /\ now - b.opened_at[1] >= recovery_timeout_seconds =>
                     last'.ret = TRUE /\ breakers'[p].state = IN_PROGRESS
      ]_vars

\* can_attempt() has answered true exactly recovery_timeout_seconds after the opening
C2_Witness ==
    \E p \in ProviderIds :
        /\ last.op = "can_attempt" /\ last.provider = p /\ last.ret = TRUE
        /\ breakers[p].state = IN_PROGRESS
        /\ now - breakers[p].opened_at[1] = recovery_timeout_seconds

\* C3: a record_success() adds one to success_count and to total_requests; in
\* HalfOpen it closes the breaker, sets failure_count to 0 and clears
\* opened_at; in Closed and in Open it changes neither state nor failure_count.
C3_RecordSuccess ==
    [][\A p \in ProviderIds :
         Called("record_success", p) =>
            LET b == breakers[p]
                b2 == breakers'[p]
            IN  /\ b2.success_count = b.success_count + 1
                /\ b2.total_requests = b.total_requests + 1
                /\ b.state = IN_PROGRESS =>
                     b2.state = SUCCESS /\ b2.failure_count = 0
                        /\ b2.opened_at = None
                /\ b.state \in {SUCCESS, FAIL} =>
                     b2.state = b.state /\ b2.failure_count = b.failure_count
      ]_vars

\* the first success recorded has closed a breaker that had counted failures
C3_Witness ==
    \E p \in ProviderIds :
        /\ last.op = "record_success" /\ last.provider = p
        /\ breakers[p].state = SUCCESS
        /\ breakers[p].success_count = 1
        /\ breakers[p].total_requests >= 3
        /\ breakers[p].failure_count = 0
        /\ breakers[p].opened_at = None

\* C4: a record_failure() on a HalfOpen breaker adds one to failure_count and
\* to total_requests and leaves state and opened_at alone; a HalfOpen breaker
\* stays HalfOpen and admits attempts until a success is recorded on it.
C4_HalfOpenFailure ==
    [][\A p \in ProviderIds :
         breakers[p].state = IN_PROGRESS =>
            LET b == breakers[p]
                b2 == breakers'[p]
            IN  /\ Called("record_failure", p) =>
                     /\ b2.failure_count = b.failure_count + 1
                     /\ b2.total_requests = b.total_requests + 1
                     /\ b2.state = IN_PROGRESS
                     /\ b2.opened_at = b.opened_at
                /\ ~Called("record_success", p) => b2.state = IN_PROGRESS
                /\ Called("can_attempt", p) => last'.ret = TRUE
      ]_vars

\* a HalfOpen breaker has counted failure_threshold failures and more
C4_Witness ==
    \E p \in ProviderIds :
        /\ last.op = "record_failure" /\ last.provider = p
        /\ breakers[p].state = IN_PROGRESS
        /\ breakers[p].failure_count > failure_threshold

\* C5: the state of a breaker changes only from Closed to Open by
\* record_failure, from Open to HalfOpen by can_attempt or get_state once the
\* timeout has passed, and from HalfOpen to Closed by record_success.
C5_Edges ==
    [][\A p \in ProviderIds :
         LET a == breakers[p].state
             b == breakers'[p].state
         IN  a # b =>
                \/ a = SUCCESS /\ b = FAIL /\ Called("record_failure", p)
                \/ /\ a = FAIL /\ b = IN_PROGRESS
                   /\ Called("can_attempt", p) \/ Called("get_state", p)
                   /\ now - breakers[p].opened_at[1] >= recovery_timeout_seconds
                \/ a = IN_PROGRESS /\ b = SUCCESS /\ Called("record_success", p)
      ]_vars

\* a breaker that has gone round the three edges and opened again
C5_Witness ==
    \E p \in ProviderIds :
        /\ breakers[p].state = FAIL
        /\ breakers[p].success_count = 1
        /\ breakers[p].failure_count = 2
        /\ breakers[p].total_requests = 4
        /\ breakers[p].opened_at[1] > StartTime

----------------------------------------------------------------------------
(* Properties of LLMMonitor.generate, under Spec.  A step whose next state  *)
(* has last.op = "generate" is a call of generate with the arguments        *)
(* last.request; last.raised is the failure it ended with, None when it     *)
(* returned a response.                                                     *)

\* the circuit of breaker cb admits an attempt at time t
Admits(cb, t) ==
    cb.state # FAIL \/ t - cb.opened_at[1] >= recovery_timeout_seconds

\* the cache holds a live entry for the contents of req
LiveEntry(req) ==
    \E k \in DOMAIN cache :
        /\ k = <<req.user_profile, req.job_market_data, OrEmpty(req.system_prompt)>>
        /\ now <= cache[k].expires_at

\* the call was rejected by the token or the budget validation
Rejected(l) == l.raised \in {Some(TOKEN_LIMIT), Some(BUDGET_LIMIT)}

\* the first provider other than p, in configured order, whose circuit admits
FirstOtherAdmitting(p) ==
    LET idx == {i \in 1..Len(ProviderOrder) :
                   ProviderOrder[i] # p /\ Admits(breakers[ProviderOrder[i]], now)}
    IN  ProviderOrder[CHOOSE i \in idx : \A j \in idx : i <= j]

\* C6: when the preferred provider's circuit is Open with the recovery timeout
\* not elapsed and another circuit admits, a request that passes validation
\* and misses the cache is sent to the first other admitting provider, and the
\* preferred provider's breaker is left as it was.
C6_Failover ==
    [][\A p \in ProviderIds :
         /\ last'.op = "generate"
         /\ last'.request.provider = Some(p)
         /\ ~Rejected(last')
         /\ ~Admits(breakers[p], now)
         /\ \E q \in ProviderIds \ {p} : Admits(breakers[q], now)
         /\ ~LiveEntry(last'.request)
         => /\ last'.called = <<FirstOtherAdmitting(p)>>
            /\ last'.selected = Some(FirstOtherAdmitting(p))
            /\ breakers'[p] = breakers[p]
            /\ get_stats(breakers'[p]).state = FAIL
            /\ get_stats(breakers'[p]).failure_count = breakers[p].failure_count
      ]_vars

\* a request preferring the first provider was answered by the second while
\* the first provider's circuit was Open
C6_Witness ==
    /\ last.op = "generate"
    /\ last.request.provider = Some("openai")
    /\ last.raised = None
    /\ ~last.cache_hit
    /\ last.called = <<"anthropic">>
    /\ last.response[1].provider = "anthropic"
    /\ breakers["openai"].state = FAIL
    /\ now - breakers["openai"].opened_at[1] < recovery_timeout_seconds

\* C7: when a request passes the token and budget validation and every
\* circuit denies attempts, generate raises "All providers unavailable",
\* calls no provider, even with a live cache entry for the request, and
\* appends no metrics and no telemetry record.
C7_AllUnavailable ==
    [][/\ last'.op = "generate"
       /\ ~Rejected(last')
       /\ \A p \in ProviderIds : ~Admits(breakers[p], now)
       => /\ last'.raised = Some(ALL_UNAVAILABLE)
          /\ last'.called = <<>>
          /\ metrics' = metrics
          /\ log_buffer' = log_buffer
      ]_vars

\* C7, for the requests whose preferred provider is absent or configured
C7_ConfiguredPreferred ==
    [][/\ last'.op = "generate"
       /\ ~Rejected(last')
       /\ \A p \in ProviderIds : ~Admits(breakers[p], now)
       /\ last'.request.provider = None \/ last'.request.provider[1] \in ProviderIds
       => /\ last'.raised = Some(ALL_UNAVAILABLE)
          /\ last'.called = <<>>
          /\ metrics' = metrics
          /\ log_buffer' = log_buffer
          /\ cache' = cache
      ]_vars

\* "All providers unavailable" was raised for a request with a live cache entry
C7_ConfiguredWitness ==
    /\ last.op = "generate"
    /\ last.raised = Some(ALL_UNAVAILABLE)
    /\ LiveEntry(last.request)

\* C8: when the provider call raises, a metrics record with success = false
\* and zero token counts is appended and a telemetry record is emitted before
\* the failure reaches the caller.
C8_FailureRecorded ==
    [][/\ last'.op = "generate"
       /\ last'.raised = Some(PROVIDER_ERROR)
       => /\ Len(metrics') = Len(metrics) + 1
          /\ metrics'[Len(metrics')].success = FALSE
          /\ metrics'[Len(metrics')].input_tokens = 0
          /\ metrics'[Len(metrics')].output_tokens = 0
          /\ Len(log_buffer') = Len(log_buffer) + 1
      ]_vars

\* C9: a call rejected with the token-limit or the budget failure leaves the
\* whole state of the monitor as it was: breakers, cache, metrics log and
\* aggregates, telemetry buffer, token counters, monthly_spending and the
\* stored budget period.
C9_RejectionFrame ==
    [][/\ last'.op = "generate"
       /\ Rejected(last')
       => UNCHANGED <<breakers, cache, metrics, provider_stats, log_buffer,
                      total_requests, total_tokens, monthly_spending,
                      current_month, current_year>>
      ]_vars

\* a request was rejected for the budget by a monitor that has served calls
C9_Witness ==
    /\ last.op = "generate"
    /\ last.raised = Some(BUDGET_LIMIT)
    /\ \E p \in ProviderIds : breakers[p].total_requests > 0

\* the input tokens of a request and the cost estimated for it, in units
InputTokens(req) ==
    (OrEmpty(req.system_prompt).len + req.user_profile.len
        + req.job_market_data.len) \div 4
Estimate(req) ==
    InputTokens(req) * 33
        + (IF InputTokens(req) < 500 THEN 500 - InputTokens(req) ELSE 0) * 75

\* the budget check would reject req in this state
OverBudget(req) ==
    LET spent == IF today.month # current_month \/ today.year # current_year
                 THEN Money(0, 0) ELSE monthly_spending
    IN  MoneyGT(MoneyAdd(spent, Estimate(req)), Money(5000, 0))

\* C10: generate runs token validation, budget check, provider selection,
\* cache lookup and provider call in this order and the first stage that
\* fails decides the outcome: over the token limit the call raises the token
\* failure whatever the budget and the circuits; else over budget it raises
\* the budget failure whatever the circuits; else with every circuit denying
\* it raises before the cache is read; else a live cache entry is returned
\* without a provider call; and no later stage has run.
C10_StageOrder ==
    [][last'.op = "generate" =>
         LET req == last'.request
             over == InputTokens(req) > 500
             denied == \A p \in ProviderIds : ~Admits(breakers[p], now)
         IN  /\ over =>
                  /\ last'.raised = Some(TOKEN_LIMIT)
                  /\ UNCHANGED <<breakers, monitor_vars>>
             /\ ~over /\ OverBudget(req) =>
                  /\ last'.raised = Some(BUDGET_LIMIT)
                  /\ UNCHANGED <<breakers, cache, metrics, log_buffer>>
             /\ ~over /\ ~OverBudget(req) /\ denied =>
                  /\ last'.raised \in {Some(ALL_UNAVAILABLE), Some(KEY_ERROR)}
                  /\ UNCHANGED <<cache, metrics, log_buffer>>
             /\ ~over /\ ~OverBudget(req) /\ ~denied /\ LiveEntry(req) =>
                  last'.raised = None /\ last'.cache_hit
             /\ last'.raised # Some(PROVIDER_ERROR) /\ ~(last'.raised = None /\ ~last'.cache_hit)
                  => last'.called = <<>>
      ]_vars

\* the token failure was raised while the budget would have rejected the
\* request and every circuit was Open within its recovery timeout
C10_Witness ==
    /\ last.op = "generate"
    /\ last.raised = Some(TOKEN_LIMIT)
    /\ OverBudget(last.request)
    /\ \A p \in ProviderIds : breakers[p].state = FAIL /\ ~Admits(breakers[p], now)

----------------------------------------------------------------------------
(* LLMMonitor._validate_tokens under direct calls *)

\* lengths of a user profile: the shortest texts, and the texts that bring a
\* request with 40 characters of job data to the token limit
ProfileLengths ==
    (0..Slack)
    \cup ((4 * max_tokens_average - 40 - Slack)..(4 * max_tokens_average - 40 + Slack))

SystemPrompts == {None, Some(EmptyText), Some(Text("system", 5))}

\* monitor._validate_tokens(user_profile, job_market_data, system_prompt)
ValidateTokens(user_profile, job_market_data, system_prompt) ==
    /\ UNCHANGED inflight
    /\ last' = [op |-> "validate_tokens", user_profile |-> user_profile,
                job_market_data |-> job_market_data,
                system_prompt |-> system_prompt,
                ret |-> validate_tokens(user_profile, job_market_data,
                                        system_prompt)]
    /\ UNCHANGED <<now, today, breakers, monitor_vars>>

NextTokens ==
    \E n \in ProfileLengths, j \in {EmptyText, Text("jobs", 40)},
       system_prompt \in SystemPrompts :
        ValidateTokens(Text("profile", n), j, system_prompt)

SpecTokens == Init /\ [][NextTokens]_vars

\* the characters of the input text of the last call of _validate_tokens
InputLength ==
    (IF last.system_prompt = None THEN 0 ELSE last.system_prompt[1].len)
        + last.user_profile.len + last.job_market_data.len

\* C11: token validation computes input_tokens as the length of
\* (system_prompt or "") + user_profile + job_market_data divided by 4 and
\* rounded down, rejects exactly when input_tokens > 500, admits 500 input
\* tokens with max_output = 0, and gives every admitted request
\* max_output = 500 - input_tokens >= 0.
C11_ValidateTokens ==
    last.op = "validate_tokens" =>
        /\ 4 * last.ret.input_tokens <= InputLength
        /\ InputLength < 4 * (last.ret.input_tokens + 1)
        /\ last.ret.valid <=> ~(last.ret.input_tokens > 500)
        /\ last.ret.valid =>
              /\ last.ret.max_output = 500 - last.ret.input_tokens
              /\ last.ret.max_output >= 0
        /\ last.ret.input_tokens = 500 => last.ret.valid /\ last.ret.max_output = 0

\* a request of exactly 500 input tokens was admitted
C11_Witness ==
    /\ last.op = "validate_tokens"
    /\ InputLength \div 4 = 500
    /\ last.ret.valid
    /\ last.ret.max_output = 0

----------------------------------------------------------------------------
(* LLMMonitor._check_budget under direct calls *)

\* monthly_spending when the calls start.  It is a plain attribute of the
\* monitor: besides nothing spent, the amounts one, two and no dollars under
\* the budget.
BudgetSpending ==
    {Money(0, 0), Money(4998, 0), Money(4999, 0), Money(5000, 0)}

\* the estimated_cost argument, in units: nothing, one unit, 1 USD and one
\* unit to each side of it, and 2 USD
EstimatedCosts ==
    {0, 1, UnitsPerUSD - 1, UnitsPerUSD, UnitsPerUSD + 1, 2 * UnitsPerUSD}

\* the periods the calendar passes through: a change of the month alone, of
\* the year alone, and of both
BudgetPeriods ==
    <<[year |-> 2026, month |-> 11], [year |-> 2026, month |-> 12],
      [year |-> 2027, month |-> 11], [year |-> 2027, month |-> 12]>>

InitBudget ==
    /\ now = StartTime
    /\ today = BudgetPeriods[1]
    /\ breakers = [p \in ProviderIds |-> CircuitBreaker]
    /\ cache = EmptyCache
    /\ metrics = <<>>
    /\ provider_stats = EmptyStats
    /\ log_buffer = <<>>
    /\ total_requests = 0
    /\ total_tokens = 0
    /\ monthly_spending \in BudgetSpending
    /\ current_month = today.month
    /\ current_year = today.year
    /\ inflight = [th \in Threads |-> None]
    /\ last = [op |-> "init"]

\* monitor._check_budget(estimated_cost)
CheckBudget(cost) ==
    \E b \in {check_budget(monthly_spending, current_month, current_year, cost,
                           today)} :
        /\ monthly_spending' = b.monthly_spending
        /\ current_month' = b.current_month
        /\ current_year' = b.current_year
        /\ UNCHANGED inflight
        /\ last' = [op |-> "check_budget", estimated_cost |-> cost,
                    spending |-> monthly_spending, allowed |-> b.allowed]
        /\ UNCHANGED <<now, today, breakers, cache, metrics, provider_stats,
                       log_buffer, total_requests, total_tokens>>

\* the calendar passes into a later period
BudgetNewPeriod ==
    /\ \E i, j \in 1..Len(BudgetPeriods) :
          today = BudgetPeriods[i] /\ j > i /\ today' = BudgetPeriods[j]
    /\ UNCHANGED inflight
    /\ last' = [op |-> "new_period"]
    /\ UNCHANGED <<now, breakers, monitor_vars>>

NextBudget ==
    \/ \E cost \in EstimatedCosts : CheckBudget(cost)
    \/ BudgetNewPeriod

SpecBudget == InitBudget /\ [][NextBudget]_vars

\* C12: _check_budget resets monthly_spending to 0 and stores the wall-clock
\* (year, month) exactly when that period differs from the stored one, and
\* then rejects exactly when the spending it is left with plus the estimate
\* exceeds the budget; so the estimate of 2 USD rejected at a spending of
\* 4999 USD is admitted once the period has changed.
C12_CheckBudget ==
    [][last'.op = "check_budget" =>
         LET differs == today.month # current_month \/ today.year # current_year
             spent == IF differs THEN Money(0, 0) ELSE monthly_spending
         IN  /\ monthly_spending' = spent
             /\ differs => current_month' = today.month /\ current_year' = today.year
             /\ ~differs => UNCHANGED <<current_month, current_year>>
             /\ last'.allowed <=>
                   ~MoneyGT(MoneyAdd(spent, last'.estimated_cost), Money(5000, 0))
             /\ (/\ monthly_spending = Money(4999, 0)
                 /\ last'.estimated_cost = 2 * UnitsPerUSD)
                   => (last'.allowed <=> differs)
      ]_vars

\* the estimate of 2 USD was admitted at a spending of 4999 USD, which the
\* call has reset
C12_Witness ==
    /\ last.op = "check_budget"
    /\ last.estimated_cost = 2 * UnitsPerUSD
    /\ last.spending = Money(4999, 0)
    /\ last.allowed
    /\ monthly_spending = Money(0, 0)
    /\ current_year = today.year /\ current_month = today.month

----------------------------------------------------------------------------
(* The ResponseCache under direct calls of its methods, in any order *)

\* the system prompts of the calls: absent, empty and a text
CachePrompts == {None, Some(EmptyText), Some(Text("system", 5))}

\* the responses stored: what each provider answers to one prompt
CacheResponses ==
    {[content |-> r.content, input_tokens |-> r.input_tokens,
      output_tokens |-> r.output_tokens, model |-> r.model,
      provider |-> r.provider] :
        r \in {provider_generate(p, Text("prompt", 113), None, 0) : p \in ProviderIds}}

\* the instants of the calls: construction, one second later, and the
\* instants from one TTL after construction on
CacheClockValues ==
    {StartTime, StartTime + 1, StartTime + ttl_seconds,
     StartTime + ttl_seconds + 1, StartTime + ttl_seconds + 2}

\* cache.set(user_profile, job_market_data, response, system_prompt)
CacheSet(user_profile, job_market_data, response, system_prompt) ==
    /\ cache' = cache_set(cache, user_profile, job_market_data, response,
                          system_prompt, now)
    /\ UNCHANGED inflight
    /\ last' = [op |-> "cache_set", user_profile |-> user_profile,
                job_market_data |-> job_market_data,
                system_prompt |-> system_prompt, response |-> response]
    /\ UNCHANGED <<now, today, breakers, metrics, provider_stats, log_buffer,
                   total_requests, total_tokens, monthly_spending,
                   current_month, current_year>>

\* cache.get(user_profile, job_market_data, system_prompt)
CacheGet(user_profile, job_market_data, system_prompt) ==
    \E g \in {cache_get(cache, user_profile, job_market_data, system_prompt, now)} :
        /\ cache' = g.cache
        /\ UNCHANGED inflight
        /\ last' = [op |-> "cache_get", user_profile |-> user_profile,
                    job_market_data |-> job_market_data,
                    system_prompt |-> system_prompt, ret |-> g.ret]
        /\ UNCHANGED <<now, today, breakers, metrics, provider_stats, log_buffer,
                       total_requests, total_tokens, monthly_spending,
                       current_month, current_year>>

\* cache.get_stats()
CacheGetStats ==
    \E g \in {cache_get_stats(cache, now)} :
        /\ cache' = g.cache
        /\ UNCHANGED inflight
        /\ last' = [op |-> "cache_get_stats", ret |-> g.ret]
        /\ UNCHANGED <<now, today, breakers, metrics, provider_stats, log_buffer,
                       total_requests, total_tokens, monthly_spending,
                       current_month, current_year>>

\* cache.clear()
CacheClear ==
    /\ cache' = cache_clear(cache)
    /\ UNCHANGED inflight
    /\ last' = [op |-> "cache_clear"]
    /\ UNCHANGED <<now, today, breakers, metrics, provider_stats, log_buffer,
                   total_requests, total_tokens, monthly_spending,
                   current_month, current_year>>

\* time passes
CacheTick ==
    /\ \E t \in CacheClockValues : t > now /\ now' = t
    /\ UNCHANGED inflight
    /\ last' = [op |-> "tick"]
    /\ UNCHANGED <<today, breakers, monitor_vars>>

NextCache ==
    \/ \E system_prompt \in CachePrompts, response \in CacheResponses :
          CacheSet(Text("profile", 40), Text("jobs", 40), response, system_prompt)
    \/ \E system_prompt \in CachePrompts :
          CacheGet(Text("profile", 40), Text("jobs", 40), system_prompt)
    \/ CacheGetStats
    \/ CacheClear
    \/ CacheTick

SpecCache == Init /\ [][NextCache]_vars

\* the content a call of set or get names: an absent system prompt and the
\* empty one name the same content
NamedBy(l) ==
    <<l.user_profile, l.job_market_data,
      IF l.system_prompt = None \/ l.system_prompt[1].len = 0
      THEN EmptyText ELSE l.system_prompt[1]>>

\* C13: set(p, j, r, s) stores r with expires_at = now + ttl under the content
\* (p, j, s), an absent and an empty s being the same content; the entry stays
\* as stored until a set on the same content, a clear, or a removal of the
\* expired entry; get(p, j, s') on that content returns exactly r when
\* now <= expires_at, and when now > expires_at returns a miss and removes
\* the entry.
C13_CacheRoundTrip ==
    [][/\ last'.op = "cache_set" =>
            /\ NamedBy(last') \in DOMAIN cache'
            /\ cache'[NamedBy(last')].response = last'.response
            /\ cache'[NamedBy(last')].expires_at = now + 3600
       /\ \A k \in DOMAIN cache :
            \/ last'.op = "cache_clear"
            \/ last'.op = "cache_set" /\ NamedBy(last') = k
            \/ last'.op \in {"cache_get", "cache_get_stats"} /\ now > cache[k].expires_at
            \/ k \in DOMAIN cache' /\ cache'[k] = cache[k]
       /\ last'.op = "cache_get" =>
            IF NamedBy(last') \in DOMAIN cache
            THEN LET entry == cache[NamedBy(last')]
                 IN  /\ now <= entry.expires_at =>
                          last'.ret = Some(entry.response) /\ cache' = cache
                     /\ now > entry.expires_at =>
                          last'.ret = None /\ NamedBy(last') \notin DOMAIN cache'
            ELSE last'.ret = None /\ cache' = cache
      ]_vars

\* a get with the empty system prompt returned the stored response at the
\* very instant the entry expires
C13_Witness ==
    /\ last.op = "cache_get"
    /\ last.system_prompt = Some(EmptyText)
    /\ last.ret # None
    /\ NamedBy(last) \in DOMAIN cache
    /\ last.ret[1] = cache[NamedBy(last)].response
    /\ now = cache[NamedBy(last)].expires_at

----------------------------------------------------------------------------
(* Further properties of LLMMonitor.generate, under Spec *)

\* the counters of a breaker that record_success and record_failure move
Recorded(cb) == <<cb.success_count, cb.failure_count, cb.total_requests>>

\* C14: a request whose contents have a live cache entry (stored by an earlier
\* call that was answered by a provider), made with any preferred provider
\* while the token and budget checks admit it and some circuit admits, is a
\* cache hit: it returns the stored content and token counts with
\* latency_ms = 10, calls no provider, records no success and no failure on
\* any breaker, and appends a telemetry record with cache_hit = true.
C14_CacheHit ==
    [][/\ last'.op = "generate"
       /\ LiveEntry(last'.request)
       /\ InputTokens(last'.request) <= 500
       /\ ~OverBudget(last'.request)
       /\ \E p \in ProviderIds : Admits(breakers[p], now)
       => LET stored == cache[<<last'.request.user_profile,
                                last'.request.job_market_data,
                                OrEmpty(last'.request.system_prompt)>>].response
          IN  /\ last'.raised = None
              /\ last'.cache_hit
              /\ last'.response[1].content = stored.content
              /\ last'.response[1].input_tokens = stored.input_tokens
              /\ last'.response[1].output_tokens = stored.output_tokens
              /\ last'.response[1].latency_ms = 10
              /\ last'.called = <<>>
              /\ \A p \in ProviderIds : Recorded(breakers'[p]) = Recorded(breakers[p])
              /\ Len(log_buffer') = Len(log_buffer) + 1
              /\ log_buffer'[Len(log_buffer')].cache_hit = TRUE
      ]_vars

\* a cache hit for a request that selected another provider than the one
\* whose response is stored
C14_Witness ==
    /\ last.op = "generate"
    /\ last.raised = None
    /\ last.cache_hit
    /\ last.called = <<>>
    /\ last.selected # Some(last.response[1].provider)
    /\ log_buffer[Len(log_buffer)].cache_hit


\* the cost of response r at the prices of provider p, in units
Charge(p, r) ==
    (r.input_tokens * providers[p].cost_per_1k_input
        + r.output_tokens * providers[p].cost_per_1k_output) \div 1000

\* monthly_spending as the budget check of a call made now leaves it
SpendingAfterCheck ==
    IF today.month # current_month \/ today.year # current_year
    THEN Money(0, 0) ELSE monthly_spending

\* C15, as stated: every call that returns a response, cache hits included,
\* increases monthly_spending by the cost of the response's token counts at
\* the prices of the provider selected for this call, total_requests by one
\* and total_tokens by input_tokens + output_tokens.
C15_Original ==
    [][/\ last'.op = "generate"
       /\ last'.raised = None
       => /\ monthly_spending' =
                MoneyAdd(monthly_spending, Charge(last'.selected[1], last'.response[1]))
          /\ total_requests' = total_requests + 1
          /\ total_tokens' = total_tokens + last'.response[1].input_tokens
                                 + last'.response[1].output_tokens
      ]_vars

\* C15, amended: the cost is added to the spending the budget check of the
\* same call has left, which is 0 when the wall-clock period differs from the
\* stored one and the spending before the call otherwise.
C15_Charged ==
    [][/\ last'.op = "generate"
       /\ last'.raised = None
       => /\ monthly_spending' =
                MoneyAdd(SpendingAfterCheck, Charge(last'.selected[1], last'.response[1]))
          /\ total_requests' = total_requests + 1
          /\ total_tokens' = total_tokens + last'.response[1].input_tokens
                                 + last'.response[1].output_tokens
      ]_vars

\* a cache hit that selected the first provider for a response stored from
\* the second, charged at the first provider's prices on top of earlier spending
C15_Witness ==
    /\ last.op = "generate"
    /\ last.raised = None
    /\ last.cache_hit
    /\ last.selected = Some("openai")
    /\ last.response[1].provider = "anthropic"
    /\ total_requests = 2
    /\ monthly_spending =
          Money(0, Charge("anthropic", last.response[1])
                     + Charge("openai", last.response[1]))


\* C16: a call of generate invokes at most one provider and invokes it at
\* most once: when the provider call raises, no other provider is tried and
\* the same one is not tried again; failover is decided before the call only.
C16_OneCall ==
    [][last'.op = "generate" =>
         /\ Len(last'.called) <= 1
         /\ last'.raised = Some(PROVIDER_ERROR) =>
              /\ last'.called = <<last'.selected[1]>>
              /\ \A p \in ProviderIds :
                    breakers'[p].total_requests =
                        breakers[p].total_requests
                            + (IF p = last'.selected[1] THEN 1 ELSE 0)
              /\ \A p \in ProviderIds : breakers'[p].success_count = breakers[p].success_count
      ]_vars

\* the call of the first provider raised while the circuit of the second,
\* which was never called, admitted attempts
C16_Witness ==
    /\ last.op = "generate"
    /\ last.raised = Some(PROVIDER_ERROR)
    /\ last.called = <<"openai">>
    /\ breakers["anthropic"].total_requests = 0
    /\ Admits(breakers["anthropic"], now)

\* the cache holds nothing that was not there before the step
NothingCached ==
    \A k \in DOMAIN cache' : k \in DOMAIN cache /\ cache'[k] = cache[k]

\* record_failure was applied once to the breaker of p and to no other
FailureRecordedOn(p) ==
    /\ breakers'[p].failure_count = breakers[p].failure_count + 1
    /\ breakers'[p].total_requests = breakers[p].total_requests + 1
    /\ breakers'[p].success_count = breakers[p].success_count
    /\ breakers'[p].last_failure_time = Some(now)
    /\ \A q \in ProviderIds \ {p} : Recorded(breakers'[q]) = Recorded(breakers[q])

\* C19, as stated: when the provider call raises, record_failure is applied
\* exactly once to the breaker of the provider called and to no other,
\* nothing is written to the cache, monthly_spending is unchanged and the
\* provider's error reaches the caller.
C19_Original ==
    [][/\ last'.op = "generate"
       /\ last'.called # <<>>
       /\ last'.response = None
       => /\ FailureRecordedOn(last'.called[1])
          /\ NothingCached
          /\ monthly_spending' = monthly_spending
          /\ last'.raised = Some(PROVIDER_ERROR)
      ]_vars

\* C19, amended: monthly_spending is left as the budget check of the same
\* call set it (0 when the wall-clock period differs from the stored one, the
\* spending before the call otherwise) and no cost is added to it.
C19_FailedCall ==
    [][/\ last'.op = "generate"
       /\ last'.called # <<>>
       /\ last'.response = None
       => /\ FailureRecordedOn(last'.called[1])
          /\ NothingCached
          /\ monthly_spending' = SpendingAfterCheck
          /\ last'.raised = Some(PROVIDER_ERROR)
      ]_vars

\* the second provider, serving a request that prefers the first, raised in
\* a new budget period while the cache held an entry
C19_Witness ==
    /\ last.op = "generate"
    /\ last.raised = Some(PROVIDER_ERROR)
    /\ last.request.provider = Some("openai")
    /\ last.called = <<"anthropic">>
    /\ breakers["anthropic"].failure_count = 1
    /\ DOMAIN cache # {}
    /\ current_year = 2027
    /\ monthly_spending = Money(0, 0)

----------------------------------------------------------------------------
(* Two threads calling generate on one monitor.  The monitor takes no lock;  *)
(* a thread gives way to the other where provider.generate waits for the     *)
(* provider (time.sleep, providers.py:45).                                   *)

\* the requests of the threads: one content, no preference or the first provider
ConcurrentRequests ==
    {r \in Requests : r.user_profile = Text("profile", 40)
                      /\ r.system_prompt = None
                      /\ r.provider \in {None, Some(ProviderOrder[1])}}

\* the calls waiting in provider.generate
Waiting == {th \in Threads : inflight[th] # None}

\* thread th calls generate and runs it to the provider call, or to its end
\* when it raises or hits the cache before
Enter(th, req) ==
    /\ inflight[th] = None
    /\ \E g \in {generate_enter(Monitor, req, now, today)} :
          /\ g.monitor.total_requests + Failures(g.monitor.breakers)
                + Cardinality(Waiting) + (IF g.pending = None THEN 0 ELSE 1)
                <= MaxCalls
          /\ breakers' = g.monitor.breakers
          /\ cache' = g.monitor.cache
          /\ metrics' = g.monitor.metrics
          /\ provider_stats' = g.monitor.provider_stats
          /\ log_buffer' = g.monitor.log_buffer
          /\ total_requests' = g.monitor.total_requests
          /\ total_tokens' = g.monitor.total_tokens
          /\ monthly_spending' = g.monitor.monthly_spending
          /\ current_month' = g.monitor.current_month
          /\ current_year' = g.monitor.current_year
          /\ inflight' = [inflight EXCEPT ![th] = g.pending]
          /\ last' = IF g.pending = None
                     THEN [op |-> "generate", thread |-> th, request |-> req,
                           raised |-> g.result[1].raised,
                           response |-> g.result[1].response,
                           called |-> g.result[1].called,
                           selected |-> g.result[1].selected,
                           cache_hit |-> g.result[1].cache_hit]
                     ELSE [op |-> "enter", thread |-> th, request |-> req]
    /\ UNCHANGED <<now, today>>

\* the provider answers thread th, or raises, and generate runs to its end
Leave(th, fails, jitter) ==
    /\ inflight[th] # None
    /\ \E g \in {generate_leave(Monitor, inflight[th][1], now, fails, jitter)} :
          /\ breakers' = g.monitor.breakers
          /\ cache' = g.monitor.cache
          /\ metrics' = g.monitor.metrics
          /\ provider_stats' = g.monitor.provider_stats
          /\ log_buffer' = g.monitor.log_buffer
          /\ total_requests' = g.monitor.total_requests
          /\ total_tokens' = g.monitor.total_tokens
          /\ monthly_spending' = g.monitor.monthly_spending
          /\ current_month' = g.monitor.current_month
          /\ current_year' = g.monitor.current_year
          /\ inflight' = [inflight EXCEPT ![th] = None]
          /\ last' = [op |-> "generate", thread |-> th,
                      request |-> inflight[th][1].request,
                      raised |-> g.raised, response |-> g.response,
                      called |-> g.called, selected |-> g.selected,
                      cache_hit |-> g.cache_hit]
    /\ UNCHANGED <<now, today>>

\* time passes
ConcurrentTick ==
    /\ \E t \in ClockValues : t > now /\ now' = t
    /\ UNCHANGED inflight
    /\ last' = [op |-> "tick"]
    /\ UNCHANGED <<today, breakers, monitor_vars>>

NextConcurrent ==
    \/ \E th \in Threads, req \in ConcurrentRequests : Enter(th, req)
    \/ \E th \in Threads, fails \in BOOLEAN, jitter \in LatencyJitter :
          Leave(th, fails, jitter)
    \/ ConcurrentTick

SpecConcurrent == Init /\ [][NextConcurrent]_vars

\* the calls waiting in the provider p that were admitted by a HalfOpen breaker
Probes(p) ==
    {th \in Waiting : /\ inflight[th][1].selected_provider = p
                      /\ inflight[th][1].admitted_in = IN_PROGRESS}

\* C17: of two concurrent generate requests against a provider whose circuit
\* is HalfOpen at most one is admitted as a probe at a time: the second is
\* not admitted to the provider before the result of the first is recorded.
C17_SingleProbe ==
    \A p \in ProviderIds : Cardinality(Probes(p)) <= 1

----------------------------------------------------------------------------
(* The MetricsCollector under direct calls of record and get_provider_stats *)

\* the RequestMetrics of a successful request to provider p that took latency ms
StatsMetric(p, latency) ==
    [provider |-> p, model |-> providers[p].model, latency_ms |-> latency,
     input_tokens |-> 20, output_tokens |-> 22, total_tokens |-> 42,
     cost_usd |-> calculate_cost(p, 20, 22), success |-> TRUE, error |-> None]

\* The latencies the first provider has recorded when the calls start, in the
\* order recorded: every length up to MaxLatencies, falling from request to
\* request, and with repeated values in no order; the list 100..500 and its
\* reverse.
StatsLists ==
    {[i \in 1..n |-> 10 * (n - i + 1)] : n \in 0..MaxLatencies}
    \cup {[i \in 1..n |-> 100 * ((7 * i) % 5) + 100] : n \in 1..MaxLatencies}
    \cup {<<100, 200, 300, 400, 500>>, <<500, 400, 300, 200, 100>>}

\* the collector after record was called for each of the latencies in turn
RecordAll(latencies) ==
    [metrics |-> [i \in 1..Len(latencies) |->
                     StatsMetric(ProviderOrder[1], latencies[i])],
     provider_stats |->
        IF latencies = <<>> THEN EmptyStats
        ELSE [p \in {ProviderOrder[1]} |->
                [total_requests |-> Len(latencies),
                 successful_requests |-> Len(latencies),
                 failed_requests |-> 0,
                 total_tokens |-> 42 * Len(latencies),
                 total_cost |-> calculate_cost(p, 20, 22) * Len(latencies),
                 latencies |-> latencies]]]

InitStats ==
    /\ now = StartTime
    /\ today = Periods[1]
    /\ breakers = [p \in ProviderIds |-> CircuitBreaker]
    /\ cache = EmptyCache
    /\ \E latencies \in StatsLists :
          \E r \in {RecordAll(latencies)} :
              metrics = r.metrics /\ provider_stats = r.provider_stats
    /\ log_buffer = <<>>
    /\ total_requests = 0
    /\ total_tokens = 0
    /\ monthly_spending = Money(0, 0)
    /\ current_month = today.month
    /\ current_year = today.year
    /\ inflight = [th \in Threads |-> None]
    /\ last = [op |-> "init"]

\* metrics.record(RequestMetrics(provider=p, latency_ms=latency, ...))
StatsRecord(p, latency) ==
    /\ Len(metrics) < MaxRecorded
    /\ \E r \in {metrics_record(metrics, provider_stats, StatsMetric(p, latency))} :
          metrics' = r.metrics /\ provider_stats' = r.provider_stats
    /\ UNCHANGED inflight
    /\ last' = [op |-> "record", provider |-> p, latency_ms |-> latency]
    /\ UNCHANGED <<now, today, breakers, cache, log_buffer, total_requests,
                   total_tokens, monthly_spending, current_month, current_year>>

\* metrics.get_provider_stats(p)
GetProviderStats(p) ==
    /\ UNCHANGED inflight
    /\ last' = [op |-> "get_provider_stats", provider |-> p,
                ret |-> get_provider_stats(provider_stats, p)]
    /\ UNCHANGED <<now, today, breakers, monitor_vars>>

NextStats ==
    \/ \E p \in ProviderIds, latency \in {150, 1300} : StatsRecord(p, latency)
    \/ \E p \in ProviderIds : GetProviderStats(p)

SpecStats == InitStats /\ [][NextStats]_vars

\* v is the value at position i (from 0) of the latencies in ascending order
AtRank(latencies, i, v) ==
    /\ \E j \in 1..Len(latencies) : latencies[j] = v
    /\ Cardinality({j \in 1..Len(latencies) : latencies[j] < v}) <= i
    /\ Cardinality({j \in 1..Len(latencies) : latencies[j] <= v}) > i

\* C18: for a provider with n >= 1 recorded latencies get_provider_stats
\* returns as p50, p95 and p99 the values at the positions n div 2,
\* floor(0.95 n) and floor(0.99 n) of the latencies in ascending order (the
\* single value when n = 1), all positions being within 0..n-1; for
\* [100, 200, 300, 400, 500] these are 300, 500 and 500.
C18_Percentiles ==
    (/\ last.op = "get_provider_stats"
     /\ last.provider \in DOMAIN provider_stats) =>
        LET latencies == provider_stats[last.provider].latencies
            n == Len(latencies)
            pct == last.ret.percentiles[1]
        IN  /\ n >= 1
            /\ last.ret.percentiles # None
            /\ (n \div 2) \in 0..(n - 1)
            /\ ((95 * n) \div 100) \in 0..(n - 1)
            /\ ((99 * n) \div 100) \in 0..(n - 1)
            /\ AtRank(latencies, n \div 2, pct.latency_p50)
            /\ AtRank(latencies, (95 * n) \div 100, pct.latency_p95)
            /\ AtRank(latencies, (99 * n) \div 100, pct.latency_p99)
            /\ n = 1 => pct.latency_p95 = latencies[1] /\ pct.latency_p99 = latencies[1]
            /\ latencies = <<100, 200, 300, 400, 500>> =>
                  /\ pct.latency_p50 = 300
                  /\ pct.latency_p95 = 500
                  /\ pct.latency_p99 = 500

\* the percentiles of the latencies 500, 400, 300, 200, 100 were read
C18_Witness ==
    /\ last.op = "get_provider_stats"
    /\ last.provider \in DOMAIN provider_stats
    /\ provider_stats[last.provider].latencies = <<500, 400, 300, 200, 100>>
    /\ last.ret.percentiles[1].latency_p50 = 300
    /\ last.ret.percentiles[1].latency_p95 = 500
    /\ last.ret.percentiles[1].latency_p99 = 500

----------------------------------------------------------------------------
(* LLMMonitor._select_provider under direct calls, on breakers that record   *)
(* the results of provider calls as generate records them                    *)

\* circuit_breakers[p].record_failure(), as by generate at line 186
SelectRecordFailure(p) ==
    /\ breakers["openai"].total_requests + breakers["anthropic"].total_requests
          < MaxCalls
    /\ breakers' = [breakers EXCEPT ![p] = record_failure(@, now)]
    /\ UNCHANGED inflight
    /\ last' = [op |-> "record_failure", provider |-> p]
    /\ UNCHANGED <<now, today, monitor_vars>>

\* circuit_breakers[p].record_success(), as by generate at line 175
SelectRecordSuccess(p) ==
    /\ breakers["openai"].total_requests + breakers["anthropic"].total_requests
          < MaxCalls
    /\ breakers' = [breakers EXCEPT ![p] = record_success(@)]
    /\ UNCHANGED inflight
    /\ last' = [op |-> "record_success", provider |-> p]
    /\ UNCHANGED <<now, today, monitor_vars>>

\* monitor._select_provider(preferred)
SelectProvider(preferred) ==
    \E r \in {select_provider(breakers, preferred, now)} :
        /\ breakers' = r.cbs
        /\ UNCHANGED inflight
        /\ last' = [op |-> "select_provider", preferred |-> preferred,
                    ret |-> r.ret]
        /\ UNCHANGED <<now, today, monitor_vars>>

\* time passes
SelectTick ==
    /\ \E t \in ClockValues : t > now /\ now' = t
    /\ UNCHANGED inflight
    /\ last' = [op |-> "tick"]
    /\ UNCHANGED <<today, breakers, monitor_vars>>

NextSelect ==
    \/ \E p \in ProviderIds : SelectRecordFailure(p)
    \/ \E p \in ProviderIds : SelectRecordSuccess(p)
    \/ \E preferred \in Preferred : SelectProvider(preferred)
    \/ SelectTick

SpecSelect == Init /\ [][NextSelect]_vars

\* the first provider in configured order whose circuit admits
FirstAdmitting ==
    LET idx == {i \in 1..Len(ProviderOrder) : Admits(breakers[ProviderOrder[i]], now)}
    IN  ProviderOrder[CHOOSE i \in idx : \A j \in idx : i <= j]

\* what C20 says _select_provider(preferred) returns
Choice(preferred) ==
    IF /\ preferred # None
       /\ preferred[1] \in ProviderIds
       /\ Admits(breakers[preferred[1]], now)
    THEN preferred[1]
    ELSE IF \E p \in ProviderIds : Admits(breakers[p], now) THEN FirstAdmitting
    ELSE IF preferred # None THEN preferred[1]
    ELSE ProviderOrder[1]

\* C20: for any preferred value (absent, configured or not configured)
\* _select_provider returns the preferred provider when it is configured and
\* its circuit admits, otherwise the first provider in configured order whose
\* circuit admits, otherwise the preferred id or the first configured
\* provider; and the id returned is always that of a configured provider.
C20_SelectProvider ==
    [][last'.op = "select_provider" =>
         /\ last'.ret = Choice(last'.preferred)
         /\ last'.ret \in ProviderIds
      ]_vars

\* C20, without its last part: the id returned is the one the three rules give
C20_Choice ==
    [][last'.op = "select_provider" => last'.ret = Choice(last'.preferred)]_vars

----------------------------------------------------------------------------
(* Recovery of an Open circuit.  SpecLive holds the runs of Spec in which    *)
(* the clock advances while ClockValues holds a later instant; that generate *)
(* is called again and again is the hypothesis of the property, stated on    *)
(* the steps of the run.                                                     *)

\* a call of generate, with any request and any outcome of the provider call
AnyGenerate ==
    \E req \in Requests, fails \in BOOLEAN, jitter \in LatencyJitter :
        Generate(req, fails, jitter)

SpecLive == Spec /\ WF_vars(Tick)

\* the recovery timeout of the breaker of p has elapsed
Elapsed(p) ==
    /\ breakers[p].opened_at # None
    /\ now - breakers[p].opened_at[1] >= recovery_timeout_seconds

\* the providers configured before p
Before(p) ==
    {ProviderOrder[i] : i \in {j \in 1..Len(ProviderOrder) :
        \E k \in 1..Len(ProviderOrder) : ProviderOrder[k] = p /\ j < k}}

\* the provider selection of a call with request req asks the circuit of p:
\* p is the preferred provider, or the preferred provider is absent, not
\* configured or denied and every provider configured before p is denied
Asked(p, req) ==
    LET configured == req.provider # None /\ req.provider[1] \in ProviderIds
    IN  \/ configured /\ req.provider[1] = p
        \/ /\ ~(configured /\ Admits(breakers[req.provider[1]], now))
           /\ \A q \in Before(p) : ~Admits(breakers[q], now)

\* C21, as stated: in a run in which generate is called infinitely often,
\* with any preferred providers, and the clock advances, a circuit that is
\* Open with its recovery timeout elapsed eventually leaves Open.
C21_Original ==
    \A p \in ProviderIds :
        []<><<AnyGenerate>>_vars =>
            ((breakers[p].state = FAIL /\ Elapsed(p)) ~> (breakers[p].state # FAIL))

\* C21, amended: a circuit that is Open with its recovery timeout elapsed
\* leaves Open in the first call of generate that passes the token and budget
\* checks and asks it, in the provider selection or (for the provider of a
\* cache entry that is returned) in the telemetry; every other call of
\* generate leaves its breaker as it was.
C21_Asked ==
    [][\A p \in ProviderIds :
         /\ last'.op = "generate"
         /\ breakers[p].state = FAIL
         /\ Elapsed(p)
         => IF /\ ~Rejected(last')
               /\ \/ Asked(p, last'.request)
                  \/ last'.cache_hit /\ last'.response[1].provider = p
            THEN breakers'[p].state # FAIL
            ELSE breakers'[p] = breakers[p]
      ]_vars

\* the first response the monitor returned came from the second provider,
\* preferred by the request, and closed its circuit, open since its one
\* failure
C21_Witness ==
    /\ last.op = "generate"
    /\ last.request.provider = Some("anthropic")
    /\ last.raised = None
    /\ last.called = <<"anthropic">>
    /\ total_requests = 1
    /\ breakers["anthropic"].state = SUCCESS
    /\ breakers["anthropic"].total_requests = 2
    /\ breakers["anthropic"].success_count = 1
    /\ breakers["anthropic"].failure_count = 0
    /\ breakers["anthropic"].last_failure_time # None

\* a response was returned while the circuit of the first provider, which the
\* call never asked, stayed Open with its recovery timeout elapsed
C21_LeftOpen ==
    /\ last.op = "generate"
    /\ last.raised = None
    /\ last.called = <<"anthropic">>
    /\ breakers["openai"].state = FAIL
    /\ Elapsed("openai")

----------------------------------------------------------------------------
(* The budget, under Spec *)

\* C22: after any sequence of calls of generate monthly_spending is at most
\* monthly_budget_usd (5000 USD): a call admitted by the budget check, which
\* prices the estimated input tokens and the output ceiling at the average
\* prices, never charges a cost that takes the spending of the period above
\* the budget.
C22_WithinBudget ==
    \/ monthly_spending.usd < 5000
    \/ monthly_spending.usd = 5000 /\ monthly_spending.units = 0

----------------------------------------------------------------------------
(* The expiry sweep of the ResponseCache, under SpecCache *)

\* the entries of the cache that have not expired
Live == {k \in DOMAIN cache : now <= cache[k].expires_at}

\* C23: get_stats removes exactly the entries with now > expires_at, leaves
\* every other entry as it was and reports as total_entries the number of
\* entries that remain; an entry with now <= expires_at is removed neither by
\* get_stats nor by a get, and a get removes no entry of another content.
C23_Sweep ==
    [][/\ last'.op = "cache_get_stats" =>
            /\ DOMAIN cache' = Live
            /\ \A k \in Live : cache'[k] = cache[k]
            /\ last'.ret.total_entries = Cardinality(Live)
            /\ last'.ret.total_entries = Cardinality(DOMAIN cache')
       /\ last'.op = "cache_get" =>
            /\ \A k \in Live : k \in DOMAIN cache' /\ cache'[k] = cache[k]
            /\ \A k \in DOMAIN cache \ {NamedBy(last')} :
                  k \in DOMAIN cache' /\ cache'[k] = cache[k]
            /\ DOMAIN cache' \subseteq DOMAIN cache
      ]_vars

\* get_stats counted two entries, of which one is at the very instant of its
\* expiry and the other was stored later
C23_Witness ==
    /\ last.op = "cache_get_stats"
    /\ last.ret.total_entries = 2
    /\ \E k \in DOMAIN cache : now = cache[k].expires_at
    /\ \E k \in DOMAIN cache : now < cache[k].expires_at

----------------------------------------------------------------------------
(* The MetricsCollector under direct calls of record, clear and              *)
(* get_total_requests, in any order                                          *)

\* the RequestMetrics recorded: for each provider a successful request and a
\* failed one, which has no tokens and no cost, with either of two latencies
MetricsRecords ==
    {StatsMetric(p, latency) : p \in ProviderIds, latency \in {150, 1300}}
    \cup
    {[StatsMetric(p, latency) EXCEPT
         !.input_tokens = 0, !.output_tokens = 0, !.total_tokens = 0,
         !.cost_usd = 0, !.success = FALSE, !.error = Some(PROVIDER_ERROR)] :
        p \in ProviderIds, latency \in {150, 1300}}

\* metrics.record(m)
MetricsRecord(m) ==
    /\ Len(metrics) < MaxRecorded
    /\ \E r \in {metrics_record(metrics, provider_stats, m)} :
          metrics' = r.metrics /\ provider_stats' = r.provider_stats
    /\ UNCHANGED inflight
    /\ last' = [op |-> "metrics_record", provider |-> m.provider,
                success |-> m.success, latency_ms |-> m.latency_ms]
    /\ UNCHANGED <<now, today, breakers, cache, log_buffer, total_requests,
                   total_tokens, monthly_spending, current_month, current_year>>

\* metrics.clear()
MetricsClear ==
    /\ \E r \in {metrics_clear(metrics, provider_stats)} :
          metrics' = r.metrics /\ provider_stats' = r.provider_stats
    /\ UNCHANGED inflight
    /\ last' = [op |-> "metrics_clear"]
    /\ UNCHANGED <<now, today, breakers, cache, log_buffer, total_requests,
                   total_tokens, monthly_spending, current_month, current_year>>

\* metrics.get_total_requests()
MetricsGetTotalRequests ==
    /\ UNCHANGED inflight
    /\ last' = [op |-> "get_total_requests", ret |-> get_total_requests(metrics)]
    /\ UNCHANGED <<now, today, breakers, monitor_vars>>

NextMetrics ==
    \/ \E m \in MetricsRecords : MetricsRecord(m)
    \/ MetricsClear
    \/ MetricsGetTotalRequests

SpecMetrics == Init /\ [][NextMetrics]_vars

\* the total_requests of the aggregate of p, 0 when p has none
Total(p) ==
    IF p \in DOMAIN provider_stats THEN provider_stats[p].total_requests ELSE 0

\* the records of the log that name provider p
RecordsOf(p) == {i \in 1..Len(metrics) : metrics[i].provider = p}

\* C24: after any calls of record and clear, every provider that has an
\* aggregate has total_requests = successful_requests + failed_requests =
\* the number of its stored latencies, which is at least 1 and is the number
\* of its records in the log, and get_total_requests returns the sum of
\* total_requests over the providers.
C24_Aggregates ==
    /\ \A p \in DOMAIN provider_stats :
          /\ provider_stats[p].total_requests =
                provider_stats[p].successful_requests
                    + provider_stats[p].failed_requests
          /\ provider_stats[p].total_requests = Len(provider_stats[p].latencies)
          /\ provider_stats[p].total_requests >= 1
          /\ provider_stats[p].total_requests = Cardinality(RecordsOf(p))
          /\ provider_stats[p].failed_requests =
                Cardinality({i \in RecordsOf(p) : ~metrics[i].success})
    /\ DOMAIN provider_stats \subseteq ProviderIds
    /\ Len(metrics) = Total("openai") + Total("anthropic")
    /\ last.op = "get_total_requests" =>
          last.ret = Total("openai") + Total("anthropic")

\* get_total_requests returned 3 for a collector that holds the aggregates of
\* both providers, one of them with a failed and a successful request
C24_Witness ==
    /\ last.op = "get_total_requests"
    /\ last.ret = 3
    /\ DOMAIN provider_stats = ProviderIds
    /\ \E p \in ProviderIds :
          /\ provider_stats[p].failed_requests = 1
          /\ provider_stats[p].successful_requests = 1

----------------------------------------------------------------------------
(* opened_at of a CircuitBreaker, under SpecBreaker *)

\* C25: in every reachable state of a breaker opened_at is None exactly when
\* the state is Closed; it is set, to the time of the call, by the
\* record_failure that opens the circuit, is kept as set through Open and
\* HalfOpen, and is cleared only by the record_success that closes the
\* circuit from HalfOpen.
C25_OpenedAt ==
    /\ [](\A p \in ProviderIds :
            breakers[p].opened_at = None <=> breakers[p].state = SUCCESS)
    /\ [][\A p \in ProviderIds :
            /\ breakers[p].opened_at = None /\ breakers'[p].opened_at # None =>
                  /\ Called("record_failure", p)
                  /\ breakers[p].state = SUCCESS
                  /\ breakers'[p].state = FAIL
                  /\ breakers'[p].opened_at = Some(now)
            /\ breakers[p].opened_at # None
               /\ breakers'[p].opened_at # breakers[p].opened_at =>
                  /\ Called("record_success", p)
                  /\ breakers[p].state = IN_PROGRESS
                  /\ breakers'[p].state = SUCCESS
                  /\ breakers'[p].opened_at = None
         ]_vars

\* the second result recorded on a breaker, a success, has closed its circuit
\* and cleared opened_at, set when the first result, a failure, opened it
C25_Witness ==
    \E p \in ProviderIds :
        /\ last.op = "record_success"
        /\ last.provider = p
        /\ breakers[p].total_requests = 2
        /\ breakers[p].success_count = 1
        /\ breakers[p].last_failure_time # None
        /\ breakers[p].state = SUCCESS
        /\ breakers[p].opened_at = None

----------------------------------------------------------------------------
(* The providers generate calls, under Spec *)

\* C26: a call of generate invokes a provider only if the circuit of that
\* provider admitted an attempt during the call: a provider whose circuit is
\* Open with its recovery timeout not elapsed is not invoked and nothing is
\* recorded on its breaker, whatever the preferred provider and the state of
\* the other circuits.
C26_Admitted ==
    [][last'.op = "generate" =>
         /\ \A i \in 1..Len(last'.called) :
               /\ last'.called[i] \in ProviderIds
               /\ Admits(breakers[last'.called[i]], now)
         /\ \A p \in ProviderIds :
               ~Admits(breakers[p], now) =>
                  /\ \A i \in 1..Len(last'.called) : last'.called[i] # p
                  /\ last'.selected # Some(p)
                  /\ breakers'[p] = breakers[p]
      ]_vars

\* a request that prefers the second provider, whose circuit is Open with
\* its recovery timeout not elapsed, was sent to the first provider, whose
\* circuit had opened before and was past its recovery timeout
C26_Witness ==
    /\ last.op = "generate"
    /\ last.request.provider = Some("anthropic")
    /\ last.called = <<"openai">>
    /\ breakers["anthropic"].state = FAIL
    /\ ~Admits(breakers["anthropic"], now)
    /\ breakers["openai"].last_failure_time # None
    /\ breakers["openai"].opened_at # Some(now)

----------------------------------------------------------------------------
(* The cost of the metrics records, under Spec *)

RECURSIVE OwnCost(_, _)
\* the cost of the first i records of the log that name provider p, each at
\* the prices of p
OwnCost(p, i) ==
    IF i = 0 THEN 0
    ELSE OwnCost(p, i - 1)
           + (IF metrics[i].provider = p THEN Charge(p, metrics[i]) ELSE 0)

\* C27: in every metrics record appended by generate, for a provider call or
\* a cache hit, cost_usd is the cost of the record's input and output token
\* counts at the prices of the provider the record names, and the total_cost
\* of each provider's aggregate is the cost of its own records at its own
\* prices.
C27_RecordCost ==
    /\ \A i \in 1..Len(metrics) :
          metrics[i].cost_usd = Charge(metrics[i].provider, metrics[i])
    /\ \A p \in DOMAIN provider_stats :
          provider_stats[p].total_cost = OwnCost(p, Len(metrics))

\* C27, for the records of provider calls: the record names the provider
\* that was called and is priced at its rates
C27_ProviderCalls ==
    [][/\ last'.op = "generate"
       /\ last'.raised = None
       /\ ~last'.cache_hit
       => /\ Len(metrics') = Len(metrics) + 1
          /\ metrics'[Len(metrics')].provider = last'.called[1]
          /\ metrics'[Len(metrics')].cost_usd =
                Charge(last'.called[1], metrics'[Len(metrics')])
      ]_vars

====
